---- MODULE Spec2Model ----
(***************************************************************************)
(* Model of the chat-to-agent bridge (MessageBridge): per-conversation     *)
(* task slots, the stream-consumption routine of executeQuery /            *)
(* continueExecution, the turn-limit continuation handshake, cancellation  *)
(* (/stop, timeout, destroy) and the coalescing card-update scheduler.     *)
(*                                                                         *)
(* JavaScript runs one handler at a time; a routine can be interleaved     *)
(* with other handlers only where it awaits I/O (a card request, the next  *)
(* stream message, the continuation promise).  Every action below is one   *)
(* such run-to-completion segment.                                         *)
(***************************************************************************)
EXTENDS Integers, Sequences, FiniteSets, TLC

\* ------------------------------------------------------------------ bounds
MaxTasks  == 2      \* task routines accepted in one behaviour
MaxEvents == 2      \* messages the backend streams yield in one behaviour
MaxRounds == 2      \* backend streams one task routine opens
MaxStops  == 1      \* /stop commands that find a task to abort
MaxCalls  == 5      \* schedule() calls made on a rate limiter exercised alone
MaxThunks == 3      \* distinct thunks handed to that rate limiter
MaxOver   == 3      \* response lengths tried on either side of the content cap
MaxTools  == 22     \* tool calls of a snapshot handed to the card builder
MaxInit   == 3      \* calls of initializeModels

Chats   == {"c1", "c2"}
TaskIds == 1..MaxTasks
NoToken == 0                   \* sessionId undefined
NoDir   == <<>>                \* workingDirectory undefined
NoPrompt == <<>>               \* systemPrompt undefined
ExistingDirs == {<<"a">>}      \* directories fs.statSync accepts

\* ------------------------------------------------------------------ texts
\* A message text is a sequence of one-character strings.
Lower == [ch \in {"Y", "E", "S", "N", "O", "T", "P", "C", "D"} |->
            CASE ch = "Y" -> "y" [] ch = "E" -> "e" [] ch = "S" -> "s"
              [] ch = "N" -> "n" [] ch = "O" -> "o" [] ch = "T" -> "t"
              [] ch = "P" -> "p" [] ch = "C" -> "c" [] ch = "D" -> "d"]

toLowerCase(s) == [i \in 1..Len(s) |-> IF s[i] \in DOMAIN Lower THEN Lower[s[i]] ELSE s[i]]

RECURSIVE trimStart(_)
trimStart(s) == IF s # <<>> /\ Head(s) = " " THEN trimStart(Tail(s)) ELSE s

RECURSIVE trimEnd(_)
trimEnd(s) == IF s # <<>> /\ s[Len(s)] = " " THEN trimEnd(SubSeq(s, 1, Len(s) - 1)) ELSE s

trim(s) == trimEnd(trimStart(s))

startsWith_never(s, ch) == FALSE

\* text.startsWith('/')
startsWith(s, ch) == s # <<>> /\ Head(s) = ch

\* text.split(/\s+/): the pieces between maximal runs of blanks; a text that
\* begins (ends) with a blank yields an empty first (last) piece.
RECURSIVE splitWs(_, _, _)
splitWs(s, cur, inGap) ==
    IF s = <<>> THEN <<cur>>
    ELSE IF Head(s) = " "
         THEN IF inGap THEN splitWs(Tail(s), cur, TRUE)
                       ELSE <<cur>> \o splitWs(Tail(s), <<>>, TRUE)
         ELSE splitWs(Tail(s), Append(cur, Head(s)), FALSE)

split(s) == splitWs(s, <<>>, FALSE)

RECURSIVE join(_)
join(ws) == IF ws = <<>> THEN <<>>
            ELSE IF Len(ws) = 1 THEN ws[1]
            ELSE ws[1] \o <<" ">> \o join(Tail(ws))

YES  == <<"y", "e", "s">>
Y    == <<"y">>
NO   == <<"n", "o">>
N    == <<"n">>
STOP == <<"/", "s", "t", "o", "p">>
CD   == <<"/", "c", "d">>
RESET == <<"/", "r", "e", "s", "e", "t">>
HELP == <<"/", "h">>
SETPROMPT == <<"/", "s", "p">>     \* stands for '/set-system-prompt'
RESETPROMPT == <<"/", "r", "p">>   \* stands for '/reset-system-prompt'
FILETEST == <<"f", "t">>      \* stands for 'file transfer test'

\* The inbound texts the model draws from.
Texts == { <<" ", "h", "i">>,                  \* a plain prompt
           <<" ", "Y", "E", "S", " ">>, Y,
           NO, <<"N", " ">>,
           <<"n", "o", "p", "e">>,
           STOP, CD \o <<" ", "a">>, RESET,
           CD, CD \o <<" ", "b">>,             \* no argument; no such directory
           SETPROMPT \o <<" ", "p">>, RESETPROMPT,
           <<" ">> \o RESET, RESET \o <<" ">>,   \* commands typed with a blank
           <<" ">> \o STOP, STOP \o <<" ">>,     \* before or after them
           <<" ">> \o CD \o <<" ", "a">> }

\* -------------------------------------------------------- display snapshot
NoErr        == "none"
MaxTurnsErr  == "error_max_turns"
OtherErr     == "error_during_execution"
ThrownErr    == "stream failed"          \* err.message of a thrown exception

\* errorMessage?.includes('error_max_turns')
includesMaxTurns(msg) == msg = MaxTurnsErr

CardState(st, text, tools, err) ==
    [status |-> st, responseText |-> text, toolCalls |-> tools, errorMessage |-> err]

initialState == CardState("thinking", <<>>, <<>>, NoErr)

isTerminal(state) == state.status \in {"complete", "error"}

\* ------------------------------------------------------- stream aggregator
\* StreamProcessor: accumulated response text, tool list and the resumption
\* token reported by the backend.  Text chunks and tool entries carry the
\* number of the round (stream) that produced them.
newProcessor == [responseText |-> <<>>, toolCalls |-> <<>>, sessionId |-> NoToken]

\* The resumption token the init message of a stream reports: a stream
\* opened with a token resumes that backend session and reports the same
\* token, a stream opened without one starts the backend session FirstToken.
\* With fresh tokens every stream reports a token of its own.
FirstToken == 1
tokenOf(t, round, resumed, fresh) ==
    IF fresh THEN 10 * t + round
    ELSE IF resumed # NoToken THEN resumed ELSE FirstToken

Events == [type : {"init", "delta", "tool_start", "tool_end"}]
            \cup [type : {"result"}, err : {NoErr, MaxTurnsErr, OtherErr}]

RECURSIVE firstRunning(_, _)
firstRunning(tools, i) ==
    IF i > Len(tools) THEN 0
    ELSE IF tools[i].status = "running" THEN i ELSE firstRunning(tools, i + 1)

\* processMessage: the processor after folding one event
foldEvent(p, ev, round, token) ==
    CASE ev.type = "init"       -> [p EXCEPT !.sessionId = token]
      [] ev.type = "delta"      -> [p EXCEPT !.responseText = Append(@, round)]
      [] ev.type = "tool_start" ->
            [p EXCEPT !.toolCalls = Append(@, [round |-> round, status |-> "running"])]
      [] ev.type = "tool_end"   ->
            LET i == firstRunning(p.toolCalls, 1)
            IN  IF i = 0 THEN p ELSE [p EXCEPT !.toolCalls[i].status = "done"]
      [] OTHER                  -> p

\* processMessage: the snapshot it returns for that event
processMessage(p, ev, round, token) ==
    LET q == foldEvent(p, ev, round, token)
    IN  IF ev.type = "result"
        THEN CardState(IF ev.err = NoErr THEN "complete" ELSE "error",
                       q.responseText, q.toolCalls, ev.err)
        ELSE CardState("running", q.responseText, q.toolCalls, NoErr)

\* ------------------------------------------------------------ rate limiter
\* RateLimiter(1500): at most one pending thunk; pendingFn is the snapshot
\* the pending thunk renders and the timer is armed exactly while a thunk is
\* pending.  `pushed` says that the limiter has pushed before; whether the
\* minimum interval has elapsed since then is an input of schedule.
newRateLimiter == [pending |-> FALSE, pendingFn |-> initialState, pushed |-> FALSE]

\* ------------------------------------------------------------------ state
VARIABLES
    sessions,       \* SessionManager: chat -> [workingDirectory, sessionId,
                    \* systemPrompt, idle]
    runningTasks,   \* Map chatId -> entry (0: no entry, t: the entry task t registered)
    entries,        \* the RunningTask objects: [startTime, waitingForContinue]
    tasks,          \* the executeQuery routines
    nextTask,       \* id of the next routine
    now,            \* Date.now(), read when a task is registered
    destroyed,      \* destroy() has run
    lastEvent,      \* what the last step sent to the chat, or logged as an error
    yielded,        \* number of stream messages yielded so far
    stops,          \* number of /stop commands that aborted a task so far
    env             \* the environment: configured default directory, the
                    \* chats that send messages, the texts they send, the
                    \* kinds of message the backend yields, how it names
                    \* its sessions, the notices that are recorded, how
                    \* many messages the streams yield and how many
                    \* streams the backend lets run into the turn limit
    , bench         \* a component exercised on its own (rate limiter, card
                    \* builder): its inputs and what it produced

vars == <<sessions, runningTasks, entries, tasks, nextTask, now, destroyed,
          lastEvent, yielded, stops, env, bench>>

\* waitingForContinue is reduced to what the code reads from it: the
\* resolver, named by the routine that waits on it (0: no record).
NoWait == 0

FreshEntry == [startTime |-> 0, waitingForContinue |-> NoWait]

NoStream == [open |-> FALSE, n |-> 0, sawResult |-> FALSE,
             prompt |-> <<>>, cwd |-> NoDir, sessionId |-> NoToken,
             systemPrompt |-> NoPrompt]

\* A session object without contents.
NoSession ==
    [workingDirectory |-> NoDir, sessionId |-> NoToken, systemPrompt |-> NoPrompt,
     idle |-> FALSE]

\* `session`: the object getSession returned when the routine started.  It is
\* the object of the store (detached = FALSE) until the store replaces it by a
\* fresh one on expiry; from then on the routine holds the replaced object.
UnusedTask ==
    [chat |-> "c1", pc |-> "unused", aborted |-> FALSE, timeoutArmed |-> FALSE,
     timeoutsSet |-> 0, text |-> <<>>, cwd |-> NoDir,
     detached |-> FALSE, session |-> NoSession, lastState |-> initialState, processor |-> newProcessor,
     stream |-> NoStream, rateLimiter |-> newRateLimiter, askEntry |-> 0,
     round |-> 0, finalPushes |-> 0, terminalPushes |-> 0,
     lateUpdate |-> FALSE, overtaken |-> FALSE, finalState |-> initialState]

\* Texts of the task life cycle: a prompt, continuation replies, /stop.
TaskTexts == { <<" ", "h", "i">>,
               <<" ", "Y", "E", "S", " ">>, Y,
               NO, <<"N", " ">>,
               <<"n", "o", "p", "e">>,
               STOP }

\* new SessionManager(config.claude.defaultWorkingDirectory, logger): a
\* session starts with the configured default directory and no token.
NoBench == [kind |-> "none"]

freshSession(dir) ==
    [workingDirectory |-> dir, sessionId |-> NoToken, systemPrompt |-> NoPrompt,
     idle |-> FALSE]

InitState(e, b) ==
    /\ env = e
    /\ bench = b
    /\ sessions = [c \in Chats |-> freshSession(e.defaultWorkingDirectory)]
    /\ runningTasks = [c \in Chats |-> 0]
    /\ entries = [t \in TaskIds |-> FreshEntry]
    /\ tasks = [t \in TaskIds |-> UnusedTask]
    /\ nextTask = 1
    /\ now = 0
    /\ destroyed = FALSE
    /\ lastEvent = [chat |-> "c1", notice |-> "none"]
    /\ yielded = 0
    /\ stops = 0

InitWith(e) == InitState(e, NoBench)

\* One conversation running tasks in a configured default directory.
Init ==
    InitWith([defaultWorkingDirectory |-> <<"a">>, chats |-> {"c1"},
              texts |-> TaskTexts, eventTypes |-> {"init", "delta", "result"},
              notices |-> {"thinking", "taskInProgress", "invalidResponse",
                           "initialCardFailed"},
              freshTokens |-> FALSE,
              events |-> MaxEvents, rounds |-> MaxRounds])

\* --------------------------------------------------------- card requests
\* The thunk of lines 408-410 / 571-573: sender.updateCard(messageId,
\* buildCard(state)) is started and not awaited.
runThunk(r, state) ==
    [r EXCEPT !.terminalPushes = IF isTerminal(state) THEN @ + 1 ELSE @,
              !.lateUpdate = @ \/ r.pc \in {"finalPush", "done"}]

\* The rate limiter on its own: each operation yields the limiter after
\* the call and `run`, the thunks it has called (none or one).
\* A limiter that keeps the thunk already pending.
limiterSchedule_keepFirst(rl, fn, elapsed) ==
    IF ~rl.pushed \/ elapsed
    THEN [rl |-> [rl EXCEPT !.pushed = TRUE], run |-> <<fn>>]
    ELSE [rl |-> IF rl.pending THEN rl ELSE [rl EXCEPT !.pending = TRUE, !.pendingFn = fn],
          run |-> <<>>]

\* schedule(fn): run fn at once if the limiter has not pushed yet or the
\* interval has elapsed since its last push; otherwise fn replaces the
\* pending thunk and the timer runs it when the interval ends.
limiterSchedule(rl, fn, elapsed) ==
    IF ~rl.pushed \/ elapsed
    THEN [rl |-> [rl EXCEPT !.pushed = TRUE], run |-> <<fn>>]
    ELSE [rl |-> [rl EXCEPT !.pending = TRUE, !.pendingFn = fn], run |-> <<>>]

\* flush(), and the timer callback: the pending thunk, if any, runs now.
limiterFlush(rl) ==
    IF rl.pending
    THEN [rl |-> [rl EXCEPT !.pending = FALSE, !.pendingFn = initialState],
          run |-> <<rl.pendingFn>>]
    ELSE [rl |-> rl, run |-> <<>>]

\* The routine after the limiter has returned o.
afterLimiter(r, o) ==
    IF o.run = <<>> THEN [r EXCEPT !.rateLimiter = o.rl]
    ELSE runThunk([r EXCEPT !.rateLimiter = o.rl], o.run[1])

\* rateLimiter.schedule(fn); elapsed: intervalMs has passed since the last push
schedule(r, state, elapsed) ==
    afterLimiter(r, limiterSchedule(r.rateLimiter, state, elapsed))

\* rateLimiter.flush(): the pending thunk, if any, runs now; the thunk
\* returns nothing, so there is no request for flush to wait for.
flush(r) == afterLimiter(r, limiterFlush(r.rateLimiter))

\* 'Send final card': await sender.updateCard(messageId, buildCard(state)).
\* inFlight: a request started by an earlier thunk has not completed yet,
\* so the final request can overtake it.  From here on the routine uses
\* none of its locals.
sendFinalCard(r, state, inFlight) ==
    [UnusedTask EXCEPT !.pc = "finalPush", !.chat = r.chat,
                       !.aborted = r.aborted, !.timeoutArmed = r.timeoutArmed,
                       !.timeoutsSet = r.timeoutsSet,
                       !.round = r.round,
                       !.finalPushes = r.finalPushes + 1,
                       !.terminalPushes = r.terminalPushes + (IF isTerminal(state) THEN 1 ELSE 0),
                       !.lateUpdate = r.lateUpdate,
                       !.overtaken = inFlight /\ r.rateLimiter.pushed,
                       !.rateLimiter = [r.rateLimiter EXCEPT !.pushed = FALSE],
                       !.finalState = state]

execute_noResume(r, prompt, session) ==
    [r EXCEPT !.pc = "stream",
              !.round = @ + 1,
              !.stream = [open |-> TRUE, n |-> 0, sawResult |-> FALSE,
                          prompt |-> prompt,
                          cwd |-> session.workingDirectory,
                          sessionId |-> NoToken,
                          systemPrompt |-> session.systemPrompt]]

\* executor.execute({prompt, cwd, sessionId, systemPrompt, abortController})
execute(r, prompt, session) ==
    [r EXCEPT !.pc = "stream",
              !.round = @ + 1,
              !.stream = [open |-> TRUE, n |-> 0, sawResult |-> FALSE,
                          prompt |-> prompt,
                          cwd |-> session.workingDirectory,
                          sessionId |-> session.sessionId,
                          systemPrompt |-> session.systemPrompt]]

ContinuePrompt == <<"c", "o", "n", "t", "i", "n", "u", "e">>

\* ---------------------------------------------------------- session store
\* The session store is modelled from its specification.  `idle` says that
\* the session's last activity is more than 24 hours old; every operation
\* of the store goes through getSession, which hands out a fresh session in
\* place of an idle one and counts as activity.
getSession(c) ==
    IF sessions[c].idle THEN freshSession(env.defaultWorkingDirectory) ELSE sessions[c]

\* The store after an access to the session of chat c.
accessed(c) == [sessions EXCEPT ![c] = getSession(c)]

hasWorkingDirectory(c) == getSession(c).workingDirectory # NoDir

\* set-context: stores the context, clears the resumption token.
setWorkingDirectory(c, dir) ==
    [sessions EXCEPT ![c] = [getSession(c) EXCEPT !.workingDirectory = dir,
                                                  !.sessionId = NoToken]]

\* reset: clears the resumption token and the overrides, keeps the context.
resetSession(c) ==
    [sessions EXCEPT ![c] = [getSession(c) EXCEPT !.sessionId = NoToken,
                                                  !.systemPrompt = NoPrompt]]

setSessionId(c, id) ==
    [sessions EXCEPT ![c] = [getSession(c) EXCEPT !.sessionId = id]]

setSystemPrompt(c, text) ==
    [sessions EXCEPT ![c] = [getSession(c) EXCEPT !.systemPrompt = text]]

\* sender.sendCard(chatId, buildTextCard(...)): the notice a handler sends.
\* Only the notices in env.notices are recorded.
Notice(c, n) == IF n \in env.notices THEN [chat |-> c, notice |-> n]
                ELSE [chat |-> "c1", notice |-> "none"]
Quiet == [chat |-> "c1", notice |-> "none"]

\* --------------------------------------------------------------- routine
\* finally { clearTimeout(timeoutId); this.runningTasks.delete(chatId); }
\* The routine returns: its locals and its request counters are gone; a
\* thunk still pending in the rate limiter stays with its timer.
finallyTask(r) ==
    [UnusedTask EXCEPT !.pc = "done", !.chat = r.chat,
                       !.lateUpdate = r.lateUpdate,
                       !.rateLimiter = [r.rateLimiter EXCEPT !.pushed = FALSE]]

\* A cleanup that empties the whole map.
finallySlots_all(c) == [d \in Chats |-> 0]

\* A cleanup that leaves the map as it is.
finallySlots_keep(c) == runningTasks

finallySlots(c) == [runningTasks EXCEPT ![c] = 0]

\* A loop that hands every snapshot to the rate limiter.
shouldSchedule_always(state) == TRUE

\* state.status !== 'complete' && state.status !== 'error': the snapshot is
\* handed to the rate limiter
shouldSchedule(state) == ~isTerminal(state)

\* A check that takes every error snapshot for the turn limit.
maxTurnsReached_anyError(state) == state.status = "error"

\* lastState.status === 'error' && lastState.errorMessage?.includes('error_max_turns')
maxTurnsReached(state) == state.status = "error" /\ includesMaxTurns(state.errorMessage)

\* A loop exit that asks for a continuation after the first round only.
afterLoop_capped(t, r0, inFlight) ==
    LET r == flush(r0)
    IN  IF maxTurnsReached(r.lastState) /\ runningTasks[r.chat] # 0 /\ r.round < 2
        THEN tasks' = [tasks EXCEPT ![t] = [r EXCEPT !.pc = "askPush",
                                                     !.askEntry = runningTasks[r.chat]]]
        ELSE tasks' = [tasks EXCEPT ![t] = sendFinalCard(r, r.lastState, inFlight)]

\* A loop exit that leaves the rate limiter as it is.
afterLoop_noFlush(t, r0, inFlight) ==
    LET r == r0
    IN  IF maxTurnsReached(r.lastState) /\ runningTasks[r.chat] # 0
        THEN tasks' = [tasks EXCEPT ![t] = [r EXCEPT !.pc = "askPush",
                                                     !.askEntry = runningTasks[r.chat]]]
        ELSE tasks' = [tasks EXCEPT ![t] = sendFinalCard(r, r.lastState, inFlight)]

\* The code after the for-await loop (lines 414-429 and 577-592), entered
\* with the routine record r: flush, then either askToContinue up to its
\* awaited continue-card request, or the final card request.
afterLoop(t, r0, inFlight) ==
    LET r == flush(r0)
    IN  IF maxTurnsReached(r.lastState) /\ runningTasks[r.chat] # 0
        THEN tasks' = [tasks EXCEPT ![t] = [r EXCEPT !.pc = "askPush",
                                                     !.askEntry = runningTasks[r.chat]]]
        ELSE tasks' = [tasks EXCEPT ![t] = sendFinalCard(r, r.lastState, inFlight)]

\* A routine that fetches the session from the store at every use.
sessionOf_store(r) == sessions[r.chat]

\* `session` as the routine of record r reads it.
sessionOf(r) == IF r.detached THEN r.session ELSE sessions[r.chat]

\* A routine that does not look at what sendCard returned.
SendCardDone_ignoreFailure(t, ok) ==
    /\ tasks[t].pc = "sendCard"
    /\ tasks' = [tasks EXCEPT ![t] = execute(tasks[t], tasks[t].text,
                                    [sessionOf(tasks[t]) EXCEPT
                                        !.workingDirectory = tasks[t].cwd])]
    /\ lastEvent' = Quiet
    /\ UNCHANGED <<sessions, runningTasks, entries, nextTask, now, destroyed,
                   yielded, stops, env, bench>>

\* sender.sendCard(chatId, buildCard(initialState)) has returned: with a
\* message id (ok), or with none: 'Failed to send initial card, aborting'.
SendCardDone(t, ok) ==
    /\ tasks[t].pc = "sendCard"
    /\ IF ok
       THEN /\ tasks' = [tasks EXCEPT ![t] =
                            execute(tasks[t], tasks[t].text,
                                    [sessionOf(tasks[t]) EXCEPT
                                        !.workingDirectory = tasks[t].cwd])]
            /\ lastEvent' = Quiet
            /\ UNCHANGED runningTasks
       ELSE /\ tasks' = [tasks EXCEPT ![t] = finallyTask(@)]
            /\ runningTasks' = finallySlots(tasks[t].chat)
            /\ lastEvent' = Notice(tasks[t].chat, "initialCardFailed")
    /\ UNCHANGED <<sessions, entries, nextTask, now, destroyed, yielded, stops, env, bench>>

\* One iteration of `for await (const message of stream)`.
StreamYield(t, ev, elapsed, inFlight) ==
    LET r == tasks[t]
        c == r.chat
    IN  /\ r.pc = "stream"
        /\ yielded < env.events
        /\ ev.type \in env.eventTypes
        /\ ~r.stream.sawResult
        /\ ev.type = "init" => r.stream.n = 0
        /\ elapsed => ~r.aborted /\ ~isTerminal(processMessage(r.processor, ev, r.round, 0))
                       /\ ~r.rateLimiter.pending /\ r.rateLimiter.pushed
        /\ inFlight => r.aborted
        /\ (ev.type = "result" /\ ev.err = MaxTurnsErr) => r.round < env.rounds
        /\ IF r.aborted
           THEN /\ afterLoop(t, [r EXCEPT !.stream = NoStream], inFlight)
                /\ UNCHANGED sessions
           ELSE LET token == tokenOf(t, r.round, r.stream.sessionId, env.freshTokens)
                    p == foldEvent(r.processor, ev, r.round, token)
                    state == processMessage(r.processor, ev, r.round, token)
                    r1 == [r EXCEPT !.processor = p,
                                    !.lastState = state,
                                    !.stream.n = @ + 1,
                                    !.stream.sawResult = (ev.type = "result")]
                IN  /\ sessions' = IF p.sessionId # NoToken /\ p.sessionId # sessionOf(r).sessionId
                                   THEN setSessionId(c, p.sessionId)
                                   ELSE sessions
                    /\ tasks' = [tasks EXCEPT ![t] =
                                    IF shouldSchedule(state) THEN schedule(r1, state, elapsed) ELSE r1]
        /\ yielded' = yielded + 1
        /\ lastEvent' = Quiet
        /\ UNCHANGED <<runningTasks, entries, nextTask, now, destroyed, stops, env, bench>>

\* The stream is exhausted: after its result message, or once aborted.
StreamEnd(t, inFlight) ==
    LET r == tasks[t]
    IN  /\ r.pc = "stream"
        /\ r.stream.sawResult \/ r.aborted
        /\ afterLoop(t, [r EXCEPT !.stream = NoStream], inFlight)
        /\ lastEvent' = Quiet
        /\ UNCHANGED <<sessions, runningTasks, entries, nextTask, now, destroyed, yielded, stops, env, bench>>

\* A catch block that reports the error without the accumulated output.
errorStateOf_blank(lastState) == CardState("error", <<>>, <<>>, ThrownErr)

\* errorState: {status: 'error', responseText: lastState.responseText,
\* toolCalls: lastState.toolCalls, errorMessage: err.message}
errorStateOf(lastState) ==
    CardState("error", lastState.responseText, lastState.toolCalls, ThrownErr)

\* The stream throws: the catch block builds errorState, flushes and sends it.
StreamThrow(t, inFlight) ==
    LET r == tasks[t]
        errorState == errorStateOf(r.lastState)
    IN  /\ r.pc = "stream"
        /\ tasks' = [tasks EXCEPT ![t] =
                        sendFinalCard(flush([r EXCEPT !.stream = NoStream]), errorState,
                                      inFlight)]
        /\ lastEvent' = Quiet
        /\ UNCHANGED <<sessions, runningTasks, entries, nextTask, now, destroyed, yielded, stops, env, bench>>

\* askToContinue: the continue card has been sent; the routine stores the
\* pending-continuation record on the entry it fetched and waits.
AskPushDone(t) ==
    LET r == tasks[t]
    IN  /\ r.pc = "askPush"
        /\ entries' = [entries EXCEPT ![r.askEntry].waitingForContinue = t]
        /\ tasks' = [tasks EXCEPT ![t] = [r EXCEPT !.pc = "waiting", !.askEntry = 0]]
        /\ lastEvent' = Quiet
        /\ UNCHANGED <<sessions, runningTasks, nextTask, now, destroyed, yielded, stops, env, bench>>

\* A continuation that folds its stream into a new aggregator.
continuationProcessor_fresh(r) == newProcessor

\* continueExecution(..., processor, ...): the aggregator of the routine is
\* passed on to the continuation round.
continuationProcessor(r) == r.processor

\* continueExecution: the 'running' card has been sent; open the next stream.
ContPushDone(t) ==
    LET r == tasks[t]
        running == CardState("running", r.processor.responseText,
                             r.processor.toolCalls, NoErr)
    IN  /\ r.pc = "contPush"
        /\ tasks' = [tasks EXCEPT ![t] =
                        execute([r EXCEPT !.lastState = running,
                                          !.processor = continuationProcessor(r)],
                                ContinuePrompt, sessionOf(r))]
        /\ lastEvent' = Quiet
        /\ UNCHANGED <<sessions, runningTasks, entries, nextTask, now, destroyed, yielded, stops, env, bench>>

\* The final card request has returned; the finally blocks run.
FinalPushDone(t) ==
    LET r == tasks[t]
    IN  /\ r.pc = "finalPush"
        /\ tasks' = [tasks EXCEPT ![t] = finallyTask(r)]
        /\ runningTasks' = finallySlots(r.chat)
        /\ lastEvent' = Quiet
        /\ UNCHANGED <<sessions, entries, nextTask, now, destroyed, yielded, stops, env, bench>>

\* The rate limiter's timer fires: the pending thunk runs.
TimerFire(t) ==
    LET r == tasks[t]
    IN  /\ r.rateLimiter.pending
        /\ tasks' = [tasks EXCEPT ![t] = afterLimiter(r, limiterFlush(r.rateLimiter))]
        /\ lastEvent' = Quiet
        /\ UNCHANGED <<sessions, runningTasks, entries, nextTask, now, destroyed, yielded, stops, env, bench>>

\* A timer that nothing clears: it fires whatever became of the routine.
TimeoutFire_neverCleared(t) ==
    /\ tasks[t].pc # "unused"
    /\ ~tasks[t].aborted
    /\ tasks' = [tasks EXCEPT ![t].aborted = TRUE]
    /\ lastEvent' = Quiet
    /\ UNCHANGED <<sessions, runningTasks, entries, nextTask, now, destroyed, yielded, stops, env, bench>>

\* setTimeout(..., TASK_TIMEOUT_MS) fires: abortController.abort().
\* timeoutArmed says that the timer was set and clearTimeout has not been
\* called on it; on a controller that is already aborted (by /stop, by
\* destroy or by this callback) the callback changes nothing.
TimeoutFire(t) ==
    /\ tasks[t].timeoutArmed
    /\ ~tasks[t].aborted
    /\ tasks' = [tasks EXCEPT ![t].aborted = TRUE]
    /\ lastEvent' = Quiet
    /\ UNCHANGED <<sessions, runningTasks, entries, nextTask, now, destroyed, yielded, stops, env, bench>>

\* -------------------------------------------------------------- handlers
\* A /stop that leaves the abort controller alone.
abort_none(e) == tasks

\* task.abortController.abort()
abort(e) == [tasks EXCEPT ![e].aborted = TRUE]

\* A /cd that takes every path for an existing directory.
directoryExists_any(arg) == TRUE

\* fs.statSync(resolvedPath) succeeds and stat.isDirectory()
directoryExists(arg) == arg \in ExistingDirs

\* A /reset that clears the working directory as well.
resetCommand_all(c) ==
    [sessions EXCEPT ![c] = freshSession(NoDir)]

\* case '/reset': this.sessionManager.resetSession(chatId)
resetCommand(c) == resetSession(c)

\* handleCommand(msg): splits the text of the message as received.
handleCommand(c, msgText) ==
    LET words == split(msgText)
        cmd == toLowerCase(words[1])
        arg == trim(join(Tail(words)))
        e == runningTasks[c]
    IN  CASE cmd = CD ->
               IF arg = <<>>
               THEN /\ lastEvent' = Notice(c, "usage")
                    /\ UNCHANGED <<sessions, runningTasks, tasks, stops>>
               ELSE IF ~directoryExists(arg)
               THEN /\ lastEvent' = Notice(c, "notFound")
                    /\ UNCHANGED <<sessions, runningTasks, tasks, stops>>
               ELSE /\ sessions' = setWorkingDirectory(c, arg)
                    /\ lastEvent' = Notice(c, "cwdSet")
                    /\ UNCHANGED <<runningTasks, tasks, stops>>
          [] cmd = RESET ->
               /\ sessions' = resetCommand(c)
               /\ lastEvent' = Notice(c, "sessionReset")
               /\ UNCHANGED <<runningTasks, tasks, stops>>
          [] cmd = RESETPROMPT ->
               /\ sessions' = setSystemPrompt(c, NoPrompt)
               /\ lastEvent' = Notice(c, "promptReset")
               /\ UNCHANGED <<runningTasks, tasks, stops>>
          [] cmd = SETPROMPT ->
               IF arg = <<>>
               THEN /\ lastEvent' = Notice(c, "usage")
                    /\ UNCHANGED <<sessions, runningTasks, tasks, stops>>
               ELSE /\ sessions' = setSystemPrompt(c, arg)
                    /\ lastEvent' = Notice(c, "promptSet")
                    /\ UNCHANGED <<runningTasks, tasks, stops>>
          [] cmd = STOP ->
               IF e # 0
               THEN /\ stops < MaxStops
                    /\ stops' = stops + 1
                    /\ tasks' = abort(e)
                    /\ runningTasks' = [runningTasks EXCEPT ![c] = 0]
                    /\ lastEvent' = Notice(c, "stopped")
                    /\ UNCHANGED sessions
               ELSE /\ lastEvent' = Notice(c, "noRunningTask")
                    /\ UNCHANGED <<sessions, runningTasks, tasks, stops>>
          [] cmd = HELP ->
               /\ lastEvent' = Notice(c, "help")
               /\ UNCHANGED <<sessions, runningTasks, tasks, stops>>
          [] OTHER ->
               /\ lastEvent' = Notice(c, "unknownCommand")
               /\ UNCHANGED <<sessions, runningTasks, tasks, stops>>

\* executeQuery(msg) up to its first awaited request (the initial card).
executeQuery(c, msgText) ==
    LET text == trim(msgText)
        t == nextTask
    IN  IF startsWith(text, "/")
        THEN /\ lastEvent' = Notice(c, "internalError")
             /\ sessions' = accessed(c)
             /\ UNCHANGED <<runningTasks, entries, tasks, nextTask, now, stops>>
        ELSE /\ nextTask <= MaxTasks
             /\ runningTasks' = [runningTasks EXCEPT ![c] = t]
             /\ entries' = [entries EXCEPT ![t] =
                               [startTime |-> now, waitingForContinue |-> NoWait]]
             /\ tasks' = [tasks EXCEPT ![t] =
                             [UnusedTask EXCEPT !.chat = c, !.pc = "sendCard",
                                                !.timeoutArmed = TRUE,
                                                !.timeoutsSet = 1, !.text = text,
                                                !.cwd = getSession(c).workingDirectory]]
             /\ nextTask' = t + 1
             /\ now' = now + 1
             /\ lastEvent' = Notice(c, "thinking")
             /\ sessions' = accessed(c)
             /\ UNCHANGED stops

\* task.waitingForContinue.resolve(shouldContinue) and what the awaiting
\* routine does before its next awaited request.
resolve(e, shouldContinue, inFlight) ==
    LET w == entries[e].waitingForContinue
        r == tasks[w]
        task == runningTasks[r.chat]
    IN  IF r.pc # "waiting"
        THEN UNCHANGED <<runningTasks, entries, tasks>>      \* already settled
        ELSE IF ~shouldContinue
        THEN /\ tasks' = [tasks EXCEPT ![w] = sendFinalCard(r, r.lastState, inFlight)]
             /\ UNCHANGED <<runningTasks, entries>>
        ELSE IF task = 0
        THEN /\ tasks' = [tasks EXCEPT ![w] = finallyTask(r)]
             /\ runningTasks' = finallySlots(r.chat)
             /\ UNCHANGED entries
        ELSE /\ entries' = [entries EXCEPT ![task].waitingForContinue = NoWait]
             /\ tasks' = [tasks EXCEPT ![w].pc = "contPush"]
             /\ UNCHANGED runningTasks

isWaitingForContinue(c) ==
    runningTasks[c] # 0 /\ entries[runningTasks[c]].waitingForContinue # NoWait

\* A handler that takes the map to hold no task for the chat.
isBusy_never(c) == FALSE

\* this.runningTasks.has(chatId)
isBusy(c) == runningTasks[c] # 0

\* A classifier that knows only the long form of the reply.
isAffirmative_onlyYes(response) == response = YES

\* response === 'yes' || response === 'y'
isAffirmative(response) == response = YES \/ response = Y

\* A classifier that knows only the long form of the reply.
isNegative_onlyNo(response) == response = NO

\* A classifier that takes every reply beginning with 'n' for a refusal.
isNegative_prefix(response) == startsWith(response, "n")

\* response === 'no' || response === 'n'
isNegative(response) == response = NO \/ response = N

\* A bridge that never asks for a working directory.
workingDirectoryMissing_never(c) == FALSE

\* if (!this.sessionManager.hasWorkingDirectory(chatId))
workingDirectoryMissing(c) == ~hasWorkingDirectory(c)

handleMessage(c, msgText, inFlight) ==
    LET text == trim(msgText)
        response == toLowerCase(text)
    IN  /\ ~destroyed
        /\ c \in env.chats
        /\ msgText \in env.texts
        /\ inFlight => isWaitingForContinue(c) /\ toLowerCase(trim(msgText)) \in {NO, N}
        /\ IF isWaitingForContinue(c)
           THEN IF isAffirmative(response)
                THEN /\ resolve(runningTasks[c], TRUE, inFlight)
                     /\ lastEvent' = Notice(c, "none")
                     /\ UNCHANGED <<sessions, nextTask, now, stops>>
                ELSE IF isNegative(response)
                THEN /\ resolve(runningTasks[c], FALSE, inFlight)
                     /\ lastEvent' = Notice(c, "none")
                     /\ UNCHANGED <<sessions, nextTask, now, stops>>
                ELSE /\ lastEvent' = Notice(c, "invalidResponse")
                     /\ UNCHANGED <<sessions, runningTasks, entries, tasks, nextTask, now, stops>>
           ELSE IF toLowerCase(text) = FILETEST
           THEN /\ lastEvent' = Notice(c, "fileTest")
                /\ UNCHANGED <<sessions, runningTasks, entries, tasks, nextTask, now, stops>>
           ELSE IF startsWith(text, "/")
           THEN /\ handleCommand(c, msgText)
                /\ UNCHANGED <<entries, nextTask, now>>
           ELSE IF workingDirectoryMissing(c)
           THEN /\ lastEvent' = Notice(c, "cwdNotSet")
                /\ sessions' = accessed(c)
                /\ UNCHANGED <<runningTasks, entries, tasks, nextTask, now, stops>>
           ELSE IF isBusy(c)
           THEN /\ lastEvent' = Notice(c, "taskInProgress")
                /\ sessions' = accessed(c)
                /\ UNCHANGED <<runningTasks, entries, tasks, nextTask, now, stops>>
           ELSE executeQuery(c, msgText)
        /\ UNCHANGED <<destroyed, yielded, env, bench>>

\* A shutdown that clears the map without aborting its tasks.
destroy_noAbort ==
    /\ ~destroyed
    /\ runningTasks' = [c \in Chats |-> 0]
    /\ destroyed' = TRUE
    /\ lastEvent' = Quiet
    /\ UNCHANGED <<tasks, sessions, entries, nextTask, now, yielded, stops, env, bench>>

\* destroy(): abort every task in the map, then clear the map.
destroy ==
    /\ ~destroyed
    /\ tasks' = [t \in TaskIds |->
                    IF \E c \in Chats : runningTasks[c] = t
                    THEN [tasks[t] EXCEPT !.aborted = TRUE] ELSE tasks[t]]
    /\ runningTasks' = [c \in Chats |-> 0]
    /\ destroyed' = TRUE
    /\ lastEvent' = Quiet
    /\ UNCHANGED <<sessions, entries, nextTask, now, yielded, stops, env, bench>>

Next ==
    \/ \E c \in Chats, msgText \in Texts, inFlight \in BOOLEAN :
          handleMessage(c, msgText, inFlight)
    \/ \E t \in TaskIds, ok \in BOOLEAN : SendCardDone(t, ok)
    \/ \E t \in TaskIds, ev \in Events, elapsed, inFlight \in BOOLEAN :
          StreamYield(t, ev, elapsed, inFlight)
    \/ \E t \in TaskIds, inFlight \in BOOLEAN : StreamEnd(t, inFlight)
    \/ \E t \in TaskIds, inFlight \in BOOLEAN : StreamThrow(t, inFlight)
    \/ \E t \in TaskIds : AskPushDone(t)
    \/ \E t \in TaskIds : ContPushDone(t)
    \/ \E t \in TaskIds : FinalPushDone(t)
    \/ \E t \in TaskIds : TimerFire(t)
    \/ \E t \in TaskIds : TimeoutFire(t)
    \/ destroy

Spec == Init /\ [][Next]_vars

\* One conversation whose tasks use tools and run into the turn limit round
\* after round; the continue card is answered with 'y'.
LongInit ==
    InitWith([defaultWorkingDirectory |-> <<"a">>, chats |-> {"c1"},
              texts |-> {<<" ", "h", "i">>, Y},
              eventTypes |-> {"delta", "tool_start", "result"},
              notices |-> {},
              freshTokens |-> FALSE,
              events |-> MaxEvents + 2, rounds |-> MaxRounds + 1])

LongSpec == LongInit /\ [][Next]_vars

\* Two chats write to the bridge; each may start a task, reply to a
\* continuation prompt, stop its task or reset its session.
TwoChatInit ==
    InitWith([defaultWorkingDirectory |-> <<"a">>, chats |-> Chats,
              texts |-> {<<" ", "h", "i">>, Y, STOP, RESET},
              eventTypes |-> {"init", "delta", "result"},
              notices |-> {},
              freshTokens |-> TRUE,
              events |-> MaxEvents, rounds |-> MaxRounds])
TwoChatSpec == TwoChatInit /\ [][Next]_vars

\* The routines of chat c that still use the session object they fetched.
holdsSession(t, c) ==
    /\ tasks[t].chat = c
    /\ tasks[t].pc \in {"sendCard", "stream", "askPush", "waiting", "contPush"}
    /\ ~tasks[t].detached

\* More than 24 hours pass without activity in the session of chat c: the
\* next access replaces the session object by a fresh one, and the routines
\* of the chat are left with the object they hold.
HoursPass(c) ==
    /\ c \in env.chats
    /\ ~sessions[c].idle
    /\ sessions' = [sessions EXCEPT ![c].idle = TRUE]
    /\ tasks' = [t \in TaskIds |->
                    IF holdsSession(t, c)
                    THEN [tasks[t] EXCEPT !.detached = TRUE, !.session = sessions[c]]
                    ELSE tasks[t]]
    /\ lastEvent' = Quiet
    /\ UNCHANGED <<runningTasks, entries, nextTask, now, destroyed,
                   yielded, stops, env, bench>>

\* One chat that uses the session commands, with or without a configured
\* default directory, and whose session may expire.
StoreInit ==
    \E dir \in {NoDir, <<"a">>} :
        InitWith([defaultWorkingDirectory |-> dir, chats |-> {"c1"},
                  texts |-> {<<" ", "h", "i">>, Y,
                            CD \o <<" ", "a">>, CD, CD \o <<" ", "b">>, RESET,
                            SETPROMPT \o <<" ", "p">>},
                  eventTypes |-> {"init", "delta", "result"},
                  notices |-> {"cwdNotSet", "thinking", "sessionReset"},
                  freshTokens |-> TRUE,
                  events |-> MaxEvents, rounds |-> MaxRounds])
\* ------------------------------------------------- the rate limiter alone
\* A bridge that receives no message, and a rate limiter that is called as
\* the routines call it: schedule (before or after the interval has
\* elapsed since the last push), the timer callback, flush.  The thunk of
\* thunks are told apart by the snapshot they render (1, 2, 3); `last` is
\* the thunk of the most recent schedule call.  A window begins with a schedule
\* call that finds the interval elapsed, or with the first call after the
\* timer or flush has delivered the pending thunk (`closed`); `pushes`
\* counts the thunks run in the current window, `sink` is the thunk run last.
QuietEnv ==
    [defaultWorkingDirectory |-> NoDir, chats |-> {}, texts |-> {},
     eventTypes |-> {}, notices |-> {}, freshTokens |-> FALSE,
     events |-> 0, rounds |-> 0]

LimiterInit ==
    InitState(QuietEnv,
              [kind |-> "limiter", rl |-> newRateLimiter, calls |-> 0, pushes |-> 0,
               last |-> 0, sink |-> 0, closed |-> FALSE, flushed |-> FALSE])

BenchRest ==
    /\ lastEvent' = Quiet
    /\ UNCHANGED <<sessions, runningTasks, entries, tasks, nextTask, now, destroyed,
                   yielded, stops, env>>

BenchSchedule(fn, elapsed) ==
    LET o == limiterSchedule(bench.rl, fn, elapsed)
    IN  /\ bench.kind = "limiter"
        /\ bench.calls < MaxCalls
        /\ elapsed => bench.rl.pushed /\ ~bench.rl.pending
        /\ bench' = [bench EXCEPT !.rl = o.rl, !.calls = @ + 1, !.last = fn,
                                  !.pushes = (IF elapsed \/ bench.closed THEN 0 ELSE @)
                                                + Len(o.run),
                                  !.sink = IF o.run = <<>> THEN @ ELSE o.run[1],
                                  !.closed = FALSE, !.flushed = FALSE]
        /\ BenchRest

BenchTimer ==
    LET o == limiterFlush(bench.rl)
    IN  /\ bench.kind = "limiter"
        /\ bench.rl.pending
        /\ bench' = [bench EXCEPT !.rl = o.rl, !.pushes = @ + Len(o.run),
                                  !.sink = o.run[1], !.closed = TRUE]
        /\ BenchRest

BenchFlush ==
    LET o == limiterFlush(bench.rl)
    IN  /\ bench.kind = "limiter"
        /\ bench.calls > 0 /\ ~bench.flushed
        /\ bench' = [bench EXCEPT !.rl = o.rl, !.pushes = @ + Len(o.run),
                                  !.sink = IF o.run = <<>> THEN @ ELSE o.run[1],
                                  !.closed = TRUE, !.flushed = TRUE]
        /\ BenchRest

LimiterNext ==
    \/ \E fn \in 1..MaxThunks, elapsed \in BOOLEAN : BenchSchedule(fn, elapsed)
    \/ BenchTimer
    \/ BenchFlush
LimiterSpec == LimiterInit /\ [][LimiterNext]_vars

\* ------------------------------------------------------- the card builder
\* A string is a sequence of runs: a run of consecutive characters of the
\* response text, given by the positions of its first and last character
\* (from 1), or the truncation marker.
MAX_CONTENT_LENGTH == 50000
TruncationMarker == [src |-> "marker"]     \* '\n\n... (content truncated) ...\n\n'
MarkerLength == 31

textOf(len) == IF len = 0 THEN <<>> ELSE <<[src |-> "text", from |-> 1, to |-> len]>>

runLength(run) == IF run.src = "marker" THEN MarkerLength ELSE run.to - run.from + 1

RECURSIVE length(_)
length(str) == IF str = <<>> THEN 0 ELSE runLength(Head(str)) + length(Tail(str))

Min(a, b) == IF a < b THEN a ELSE b
Max(a, b) == IF a > b THEN a ELSE b

\* text.slice(start, end) of a text of one run: positions counted from 0, a
\* negative position counted from the end, both clamped to the text.
slice(text, start, end) ==
    LET len == length(text)
        a == IF start < 0 THEN Max(len + start, 0) ELSE Min(start, len)
        b == IF end < 0 THEN Max(len + end, 0) ELSE Min(end, len)
    IN  IF a >= b THEN <<>>
        ELSE <<[src |-> "text", from |-> text[1].from + a, to |-> text[1].from + b - 1]>>

\* A truncation that keeps half of the cap on either side.
truncateContent_halfCap(text) ==
    IF length(text) <= MAX_CONTENT_LENGTH THEN text
    ELSE LET half == (MAX_CONTENT_LENGTH \div 2) + 50
         IN  slice(text, 0, half) \o <<TruncationMarker>> \o slice(text, 0 - half, length(text))

truncateContent(text) ==
    IF length(text) <= MAX_CONTENT_LENGTH THEN text
    ELSE LET half == (MAX_CONTENT_LENGTH \div 2) - 50
         IN  slice(text, 0, half) \o <<TruncationMarker>> \o slice(text, 0 - half, length(text))

\* state.toolCalls.slice(-20)
lastTools(tools, n) == SubSeq(tools, Max(Len(tools) - n, 0) + 1, Len(tools))

\* A tool section that shows the first twenty tool calls.
toolLines_first(tools) ==
    LET recentToolCalls == SubSeq(tools, 1, Min(Len(tools), 20))
        lines == [i \in 1..Len(recentToolCalls) |->
                     [icon |-> IF recentToolCalls[i].status = "running" THEN "hourglass" ELSE "check",
                      name |-> recentToolCalls[i].name,
                      detail |-> recentToolCalls[i].detail]]
    IN  IF Len(tools) > 20 THEN <<[hidden |-> Len(tools) - 20]>> \o lines ELSE lines

\* The lines of the tool section: the latest twenty tool calls, preceded by
\* the line '... (n earlier tool calls hidden)' when there are more.
toolLines(tools) ==
    LET recentToolCalls == lastTools(tools, 20)
        lines == [i \in 1..Len(recentToolCalls) |->
                     [icon |-> IF recentToolCalls[i].status = "running" THEN "hourglass" ELSE "check",
                      name |-> recentToolCalls[i].name,
                      detail |-> recentToolCalls[i].detail]]
    IN  IF Len(tools) > 20 THEN <<[hidden |-> Len(tools) - 20]>> \o lines ELSE lines

\* buildCard(state): the header and the elements of the card.
buildCard(state) ==
    [header |-> state.status,
     elements |->
        (IF Len(state.toolCalls) > 0
         THEN <<[tag |-> "tools", content |-> toolLines(state.toolCalls)], [tag |-> "hr"]>>
         ELSE <<>>)
        \o (IF state.responseText # <<>>
            THEN <<[tag |-> "response", content |-> truncateContent(state.responseText)]>>
            ELSE IF state.status = "thinking" THEN <<[tag |-> "thinking"]>> ELSE <<>>)
        \o (IF state.errorMessage # NoErr
            THEN <<[tag |-> "error", content |-> state.errorMessage]>> ELSE <<>>)]

\* The snapshots handed to the card builder: a response text of a length
\* around the cap (or empty, or more than twice the cap), n tool calls of
\* which the first `done` have ended.
Lengths ==
    {0, 1, 2 * MAX_CONTENT_LENGTH + 1}
        \cup ((MAX_CONTENT_LENGTH - MaxOver)..(MAX_CONTENT_LENGTH + MaxOver))

toolsOf(n, done) ==
    [i \in 1..n |-> [name |-> i, detail |-> i,
                     status |-> IF i <= done THEN "done" ELSE "running"]]

CardInit ==
    \E len \in Lengths, n \in 0..MaxTools, st \in {"running", "complete"} :
      \E done \in {0, n} :
        InitState(QuietEnv,
                  [kind |-> "card", rendered |-> FALSE, card |-> <<>>,
                   state |-> CardState(st, textOf(len), toolsOf(n, done), NoErr)])

\* this.sender.updateCard(messageId, buildCard(state))
BenchRender ==
    /\ bench.kind = "card"
    /\ ~bench.rendered
    /\ bench' = [bench EXCEPT !.rendered = TRUE, !.card = buildCard(bench.state)]
    /\ BenchRest

CardSpec == CardInit /\ [][BenchRender]_vars

\* ------------------------------------------------------- the model list
\* src/claude/models.ts on its own.  A model is {id, name, description}.
ModelInfo(id, name, description) ==
    [id |-> id, name |-> name, description |-> description]

FALLBACK_MODELS ==
    << ModelInfo("claude-opus-4-6", "Claude Opus 4.6", "Most capable model (latest)"),
       ModelInfo("claude-sonnet-4-6", "Claude Sonnet 4.6",
                 "Balanced performance and speed (recommended)"),
       ModelInfo("claude-haiku-3-5", "Claude Haiku 3.5",
                 "Fastest model, good for simple tasks"),
       ModelInfo("claude-3-5-sonnet-20241022", "Claude 3.5 Sonnet (Oct 2024)",
                 "Previous Sonnet version"),
       ModelInfo("claude-3-5-haiku-20241022", "Claude 3.5 Haiku (Oct 2024)",
                 "Previous Haiku version"),
       ModelInfo("claude-3-opus-20240229", "Claude 3 Opus (Feb 2024)",
                 "Previous Opus version") >>

\* What stream.supportedModels() may answer: entries {value, displayName,
\* description}; none, aliases of the installed CLI, or an entry whose value
\* is also a hard-coded id.
SdkModel(value, displayName, description) ==
    [value |-> value, displayName |-> displayName, description |-> description]
SdkAnswers ==
    { <<>>,
      <<SdkModel("default", "Default", "recommended")>>,
      <<SdkModel("sonnet", "Sonnet", "balanced"), SdkModel("opus", "Opus", "capable")>>,
      <<SdkModel("claude-opus-4-6", "Opus 4.6", "pinned")>> }

\* sdkModels.map((m) => ({id: m.value, name: m.displayName, description: m.description}))
aliasModels(sdkModels) ==
    [i \in 1..Len(sdkModels) |->
        ModelInfo(sdkModels[i].value, sdkModels[i].displayName, sdkModels[i].description)]

\* A list that holds the fetched aliases only.
fetchedModels_aliasOnly(sdkModels) == aliasModels(sdkModels)

\* cachedModels = [...aliasModels, ...FALLBACK_MODELS]
fetchedModels(sdkModels) == aliasModels(sdkModels) \o FALLBACK_MODELS

\* cachedModels.some((m) => m.id === modelId)
isValidModel(cachedModels, modelId) ==
    \E i \in 1..Len(cachedModels) : cachedModels[i].id = modelId

\* cachedModels.find((m) => m.id === modelId): the first match, or undefined
getModelInfo(cachedModels, modelId) ==
    IF isValidModel(cachedModels, modelId)
    THEN cachedModels[CHOOSE i \in 1..Len(cachedModels) :
                         /\ cachedModels[i].id = modelId
                         /\ \A j \in 1..(i - 1) : cachedModels[j].id # modelId]
    ELSE [id |-> "undefined"]

\* let cachedModels = FALLBACK_MODELS; no call of initializeModels yet.  A
\* call is "idle" (not made), "awaiting" (at `await stream.supportedModels()`),
\* or has "returned"; `failed`: it went through the catch block; `threw`: an
\* error left initializeModels.
NoCall == [pc |-> "idle", failed |-> FALSE, threw |-> FALSE]
ModelsInit ==
    InitState(QuietEnv,
              [kind |-> "models", cachedModels |-> FALLBACK_MODELS,
               calls |-> [i \in 1..MaxInit |-> NoCall]])

\* initializeModels(cwd) up to its await; queryThrows: query() itself throws,
\* the catch block swallows the error and the call returns.
InitializeModels(i, queryThrows) ==
    /\ bench.kind = "models"
    /\ bench.calls[i].pc = "idle"
    /\ \A j \in 1..(i - 1) : bench.calls[j].pc # "idle"
    /\ bench' = [bench EXCEPT !.calls[i] =
                    IF queryThrows
                    THEN [pc |-> "returned", failed |-> TRUE, threw |-> FALSE]
                    ELSE [pc |-> "awaiting", failed |-> FALSE, threw |-> FALSE]]
    /\ BenchRest

\* supportedModels() resolves with sdkModels: the cached list is rebuilt.
ModelsFetched(i, sdkModels) ==
    /\ bench.kind = "models"
    /\ bench.calls[i].pc = "awaiting"
    /\ bench' = [bench EXCEPT !.cachedModels = fetchedModels(sdkModels),
                              !.calls[i].pc = "returned"]
    /\ BenchRest

\* supportedModels() rejects: `catch {}` keeps the list.
ModelsFetchFailed(i) ==
    /\ bench.kind = "models"
    /\ bench.calls[i].pc = "awaiting"
    /\ bench' = [bench EXCEPT !.calls[i] =
                    [pc |-> "returned", failed |-> TRUE, threw |-> FALSE]]
    /\ BenchRest

ModelsNext ==
    \/ \E i \in 1..MaxInit, queryThrows \in BOOLEAN : InitializeModels(i, queryThrows)
    \/ \E i \in 1..MaxInit, sdkModels \in SdkAnswers : ModelsFetched(i, sdkModels)
    \/ \E i \in 1..MaxInit : ModelsFetchFailed(i)
ModelsSpec == ModelsInit /\ [][ModelsNext]_vars

\* One conversation whose user types commands with and without surrounding
\* blanks, while tasks run and between them.
CommandInit ==
    InitWith([defaultWorkingDirectory |-> <<"a">>, chats |-> {"c1"},
              texts |-> {<<" ", "h", "i">>, Y,
                        RESET, <<" ">> \o RESET, RESET \o <<" ">>,
                        STOP, <<" ">> \o STOP, STOP \o <<" ">>,
                        CD \o <<" ", "a">>, <<" ">> \o CD \o <<" ", "a">>},
              eventTypes |-> {"init", "delta", "result"},
              notices |-> {"sessionReset", "stopped", "cwdSet", "unknownCommand",
                           "invalidResponse"},
              freshTokens |-> TRUE,
              events |-> MaxEvents, rounds |-> MaxRounds])
CommandSpec == CommandInit /\ [][Next]_vars

StoreNext == Next \/ \E c \in Chats : HoursPass(c)
StoreSpec == StoreInit /\ [][StoreNext]_vars

\* A reply to the continue card: 'yes', 'y', 'no' or 'n' sent to a chat whose
\* slot entry holds a continuation record.
Reply(c) ==
    /\ isWaitingForContinue(c)
    /\ \E msgText \in Texts :
          /\ toLowerCase(trim(msgText)) \in {YES, Y, NO, N}
          /\ handleMessage(c, msgText, FALSE)

\* A stream terminates: it is exhausted or it throws.
StreamTerminates(t) ==
    \E inFlight \in BOOLEAN : StreamEnd(t, inFlight) \/ StreamThrow(t, inFlight)

\* The event loop runs every continuation whose awaited card request has
\* returned; every card request returns; every stream terminates; every
\* continue card is answered.
FairSpec ==
    /\ Spec
    /\ \A t \in TaskIds :
          /\ WF_vars(\E ok \in BOOLEAN : SendCardDone(t, ok))
          /\ WF_vars(StreamTerminates(t))
          /\ WF_vars(AskPushDone(t))
          /\ WF_vars(ContPushDone(t))
          /\ WF_vars(FinalPushDone(t))
    /\ \A c \in Chats : WF_vars(Reply(c))

\* ------------------------------------------------------------ properties
\* Vocabulary of the properties, written apart from the handlers.
IsCommandText(txt) == startsWith(trim(txt), "/")
IsPromptText(txt)  == ~IsCommandText(txt) /\ toLowerCase(trim(txt)) # FILETEST
PromptTexts == {txt \in Texts : IsPromptText(txt)}
AffirmativeTexts == {txt \in Texts : toLowerCase(trim(txt)) \in {YES, Y}}
NegativeTexts == {txt \in Texts : toLowerCase(trim(txt)) \in {NO, N}}
OtherTexts == Texts \ (AffirmativeTexts \cup NegativeTexts)
TurnLimit(state) == state.status = "error" /\ state.errorMessage = MaxTurnsErr
\* The chat's slot entry holds a continuation record whose routine waits.
Waiter(c) == entries[runningTasks[c]].waitingForContinue
Suspended(c) ==
    /\ runningTasks[c] # 0
    /\ Waiter(c) # NoWait
    /\ tasks[Waiter(c)].pc = "waiting"
Routines(c) == {t \in TaskIds : tasks[t].chat = c /\ tasks[t].pc \notin {"unused", "done"}}
Consuming(c) == {t \in Routines(c) : tasks[t].pc = "stream"}

\* C1 (busy rejection): a message that is not a command, arriving while the
\* chat's slot holds a running task that is not waiting for a continuation
\* reply, is answered with the 'Task In Progress' notice; it opens no
\* stream, creates no second entry, and leaves the slot, its entry (abort
\* controller and start time) and every routine unchanged.
C1_BusyRejection ==
    [][\A c \in Chats :
          (runningTasks[c] # 0 /\ entries[runningTasks[c]].waitingForContinue = NoWait)
          => \A txt \in PromptTexts :
                handleMessage(c, txt, FALSE)
                => /\ lastEvent' = [chat |-> c, notice |-> "taskInProgress"]
                   /\ UNCHANGED <<runningTasks, entries, tasks, nextTask, sessions>>]_vars

\* A prompt was rejected while the chat's routine was consuming its stream.
C1_Witness ==
    \E c \in Chats :
        /\ lastEvent = [chat |-> c, notice |-> "taskInProgress"]
        /\ runningTasks[c] # 0
        /\ tasks[runningTasks[c]].pc = "stream"
        /\ tasks[runningTasks[c]].stream.n > 0

\* C2 (one active task per chat): at most one routine of a chat is
\* consuming or awaiting a backend stream.
C2_OneActiveRoutine ==
    \A c \in Chats : Cardinality(Consuming(c)) <= 1

\* C3 as stated (exactly one terminal push): a routine that has issued its
\* final card request has pushed exactly one snapshot with status complete
\* or error.
C3_ExactlyOneTerminalPush ==
    \A t \in TaskIds :
        tasks[t].pc = "finalPush" => tasks[t].terminalPushes = 1

\* C3 (amended): a routine issues at most one final card request; no
\* request before it carries status complete or error and none follows it;
\* the final request carries status complete or error whenever the
\* routine's abort signal has not been raised, so that then exactly one
\* terminal snapshot is pushed.  A routine that left its loop on the abort
\* check pushes the snapshot it had accumulated, whatever its status.
C3_TerminalPush ==
    \A t \in TaskIds :
        /\ ~tasks[t].lateUpdate
        /\ tasks[t].pc # "finalPush"
              => tasks[t].finalPushes = 0 /\ tasks[t].terminalPushes = 0
        /\ tasks[t].pc = "finalPush"
              => /\ tasks[t].finalPushes = 1
                 /\ tasks[t].terminalPushes =
                        (IF tasks[t].finalState.status \in {"complete", "error"} THEN 1 ELSE 0)
                 /\ ~tasks[t].aborted => tasks[t].terminalPushes = 1

\* A routine that was never aborted has sent its final card with the
\* result of its second stream, after earlier running snapshots.
C3_Witness ==
    \E t \in TaskIds :
        /\ tasks[t].pc = "finalPush" /\ ~tasks[t].aborted
        /\ tasks[t].finalState.status = "complete"
        /\ tasks[t].terminalPushes = 1
        /\ tasks[t].rateLimiter.pending = FALSE
        /\ tasks[t].round = 2

\* C4 (the terminal push is last): when the final card request is issued no
\* earlier card request of the routine is still in flight, and no update
\* request is issued after it.
C4_TerminalPushLast ==
    \A t \in TaskIds : ~tasks[t].overtaken /\ ~tasks[t].lateUpdate

C6_SlotHeldUntilTerminalPush ==
    ~destroyed =>
        \A c \in Chats :
            LET unfinished == {t \in Routines(c) : tasks[t].pc # "finalPush"}
            IN  /\ unfinished # {} => runningTasks[c] # 0
                /\ Cardinality(unfinished) <= 1

\* C7 (turn-limit suspension): a routine whose stream ends while its last
\* snapshot is the turn-limit error and the chat's slot holds an entry sends
\* the continue card instead of a final card and, once that card is sent,
\* stores the continuation record on the entry and waits on it; neither
\* step touches the slot.  A stream that ends with any other last snapshot,
\* or that throws, leads to the final card.
C7_TurnLimitSuspension ==
    [][\A t \in TaskIds :
          LET r == tasks[t]
              q == tasks'[t]
          IN  /\ (r.pc = "stream" /\ q.pc # "stream")
                   => /\ q.pc \in {"askPush", "finalPush"}
                      /\ q.pc = "askPush"
                            => /\ TurnLimit(r.lastState) /\ runningTasks[r.chat] # 0
                               /\ q.askEntry = runningTasks[r.chat]
                               /\ q.finalPushes = 0 /\ q.lastState = r.lastState
                               /\ UNCHANGED <<runningTasks, entries>>
                      /\ (q.pc = "finalPush" /\ TurnLimit(r.lastState)
                                               /\ runningTasks[r.chat] # 0)
                            => q.finalState.errorMessage = ThrownErr
              /\ (r.pc = "askPush" /\ q.pc # "askPush")
                   => /\ q.pc = "waiting"
                      /\ entries'[r.askEntry].waitingForContinue = t
                      /\ TurnLimit(q.lastState)
                      /\ UNCHANGED runningTasks
              /\ q.pc = "waiting" => r.pc \in {"askPush", "waiting"}]_vars

\* The chat is suspended on a routine that holds the turn-limit snapshot.
C7_Witness ==
    \E c \in Chats :
        /\ Suspended(c)
        /\ Waiter(c) = runningTasks[c]
        /\ TurnLimit(tasks[Waiter(c)].lastState)
        /\ tasks[Waiter(c)].finalPushes = 0

\* C8 (an affirmative reply continues): while a chat is suspended, a reply
\* whose trimmed lower-cased text is 'yes' or 'y' resolves the wait: the
\* continuation record is cleared, the slot, its entry and the abort signal
\* stay as they are, and the routine opens one more stream, with the fixed
\* continuation prompt and the token and directory the session holds then.
C8_AffirmativeContinues ==
    [][/\ \A c \in Chats :
             Suspended(c)
             => \A txt \in AffirmativeTexts :
                   handleMessage(c, txt, FALSE)
                   => LET w == Waiter(c)
                      IN  /\ entries'[runningTasks[c]].waitingForContinue = NoWait
                          /\ entries'[runningTasks[c]].startTime
                                = entries[runningTasks[c]].startTime
                          /\ tasks' = [tasks EXCEPT ![w].pc = "contPush"]
                          /\ UNCHANGED <<runningTasks, nextTask, sessions>>
       /\ \A t \in TaskIds :
             (tasks[t].pc = "contPush" /\ tasks'[t].pc # "contPush")
             => /\ tasks'[t].pc = "stream"
                /\ tasks'[t].round = tasks[t].round + 1
                /\ tasks'[t].stream.prompt = ContinuePrompt
                /\ tasks'[t].stream.sessionId = sessions[tasks[t].chat].sessionId
                /\ tasks'[t].stream.cwd = sessions[tasks[t].chat].workingDirectory
                /\ tasks'[t].aborted = tasks[t].aborted
                /\ UNCHANGED <<runningTasks, entries, sessions>>
       /\ \A t \in TaskIds :
             tasks'[t].pc = "contPush" => tasks[t].pc \in {"waiting", "contPush"}]_vars

\* A routine consumes its second stream, opened with the continuation
\* prompt and the token its first stream's init message reported; the slot
\* still holds its entry, with no continuation record.
C8_Witness ==
    \E t \in TaskIds :
        /\ tasks[t].pc = "stream" /\ tasks[t].round = 2
        /\ tasks[t].stream.prompt = ContinuePrompt
        /\ tasks[t].stream.sessionId = FirstToken
        /\ tasks[t].processor.sessionId = FirstToken
        /\ runningTasks[tasks[t].chat] = t
        /\ entries[t].waitingForContinue = NoWait

\* C9 (a negative reply finalizes): while a chat is suspended, a reply whose
\* trimmed lower-cased text is 'no' or 'n' makes the waiting routine send
\* one final card with the turn-limit snapshot it held; the routine opens
\* no further stream, and when the card is sent it releases the slot.
C9_NegativeFinalizes ==
    [][/\ \A c \in Chats :
             Suspended(c)
             => \A txt \in NegativeTexts, inFlight \in BOOLEAN :
                   handleMessage(c, txt, inFlight)
                   => LET w == Waiter(c)
                      IN  /\ tasks'[w].pc = "finalPush"
                          /\ tasks'[w].finalState = tasks[w].lastState
                          /\ TurnLimit(tasks[w].lastState)
                          /\ tasks'[w].finalPushes = 1
                          /\ tasks'[w].round = tasks[w].round
                          /\ \A t \in TaskIds \ {w} : tasks'[t] = tasks[t]
                          /\ UNCHANGED <<runningTasks, nextTask>>
       /\ \A t \in TaskIds :
             (tasks[t].pc = "finalPush" /\ tasks'[t].pc # "finalPush")
             => tasks'[t].pc = "done" /\ runningTasks'[tasks[t].chat] = 0]_vars

\* After 'no': the final card with the turn-limit snapshot is on its way and
\* the slot is still held.
C9_Witness ==
    \E t \in TaskIds :
        /\ tasks[t].pc = "finalPush"
        /\ TurnLimit(tasks[t].finalState)
        /\ tasks[t].finalPushes = 1
        /\ runningTasks[tasks[t].chat] = t
        /\ entries[t].waitingForContinue = t

\* C10 (an invalid reply keeps the suspension): while a chat is suspended, a
\* message whose trimmed lower-cased text is none of yes, y, no, n is
\* answered with the 'Invalid Response' notice and changes nothing else:
\* the routine keeps waiting, the record and the slot stay, no stream is
\* opened and no task is registered.
C10_InvalidReplyKeepsSuspension ==
    [][\A c \in Chats :
          Suspended(c)
          => \A txt \in OtherTexts, inFlight \in BOOLEAN :
                handleMessage(c, txt, inFlight)
                => /\ lastEvent' = [chat |-> c, notice |-> "invalidResponse"]
                   /\ UNCHANGED <<runningTasks, entries, tasks, nextTask, sessions>>]_vars

\* An invalid reply was answered while the routine keeps waiting.
C10_Witness ==
    \E c \in Chats :
        /\ lastEvent = [chat |-> c, notice |-> "invalidResponse"]
        /\ Suspended(c)

StopTexts == {txt \in Texts : trim(txt) = STOP}

\* C11 as stated (stop works from any occupied state): a /stop sent to a
\* chat whose slot is occupied, with or without a pending continuation
\* record, aborts the task of the slot and empties the slot.
C11_StopFromAnyState ==
    [][\A c \in Chats :
          runningTasks[c] # 0
          => \A txt \in StopTexts :
                handleMessage(c, txt, FALSE)
                => /\ tasks'[runningTasks[c]].aborted
                   /\ runningTasks'[c] = 0]_vars

\* C11 (amended): a /stop sent to a chat whose slot is occupied aborts the
\* task of the slot and empties the slot, leaving every other routine and
\* the entries alone, when the slot's entry holds no continuation record;
\* when it holds one, /stop is classified as a reply, answered with the
\* 'Invalid Response' notice, and changes neither slot nor signal.
C11_StopWhenNoReplyAwaited ==
    [][\A c \in Chats :
          runningTasks[c] # 0
          => \A txt \in StopTexts :
                handleMessage(c, txt, FALSE)
                => LET e == runningTasks[c]
                   IN  IF entries[e].waitingForContinue = NoWait
                       THEN /\ tasks'[e].aborted
                            /\ runningTasks'[c] = 0
                            /\ \A t \in TaskIds \ {e} : tasks'[t] = tasks[t]
                            /\ tasks'[e].pc = tasks[e].pc
                            /\ UNCHANGED <<entries, sessions, nextTask>>
                       ELSE /\ lastEvent' = [chat |-> c, notice |-> "invalidResponse"]
                            /\ UNCHANGED <<runningTasks, entries, tasks,
                                           sessions, nextTask>>]_vars

\* A running task was stopped: its routine still consumes its stream, with
\* the signal raised and the slot empty.
C11_Witness ==
    \E t \in TaskIds :
        /\ tasks[t].pc = "stream" /\ tasks[t].stream.n > 0
        /\ tasks[t].aborted /\ ~destroyed
        /\ stops = 1
        /\ runningTasks[tasks[t].chat] = 0

ReplyStep(c) ==
    \E txt \in AffirmativeTexts \cup NegativeTexts, inFlight \in BOOLEAN :
        handleMessage(c, txt, inFlight)

\* C12 (suspension ends only by reply or shutdown): while a chat is
\* suspended, every step other than a yes/no reply in that chat and other
\* than destroy leaves the chat's slot as it is and the routine waiting; in
\* particular the task timeout does.
C12_SuspensionEndsByReplyOrShutdown ==
    [][\A c \in Chats :
          Suspended(c)
          => \/ /\ runningTasks'[c] = runningTasks[c]
                /\ tasks'[Waiter(c)].pc = "waiting"
             \/ destroyed'
             \/ ReplyStep(c)]_vars

\* The resolver a waiting routine waits on can still be called: some
\* chat's slot holds an entry whose continuation record names the routine.
Reachable(t) ==
    \E c \in Chats : runningTasks[c] # 0 /\ Waiter(c) = t

\* After the abort signal of a routine has been raised, no stream message
\* is folded into its aggregator and no snapshot is handed to its rate
\* limiter, and the final card carries the text and tools accumulated
\* before the signal.
NoEmissionAfterAbort ==
    \A t \in TaskIds :
        tasks[t].aborted
        => /\ tasks'[t].pc \notin {"finalPush", "done"}
                => /\ tasks'[t].processor = tasks[t].processor
                   /\ tasks'[t].rateLimiter.pending => tasks[t].rateLimiter.pending
           /\ (tasks[t].pc \notin {"finalPush", "done"} /\ tasks'[t].pc = "finalPush")
                => /\ tasks'[t].finalState.responseText = tasks[t].processor.responseText
                   /\ tasks'[t].finalState.toolCalls = tasks[t].processor.toolCalls

\* C13 (cancellation stops emission): after the abort signal of a routine
\* has been raised nothing more is folded or scheduled, and a final card
\* with the accumulated snapshot still follows: the routine is never left
\* waiting on a resolver that no message can reach.
C13_CancellationStopsEmission ==
    [][/\ NoEmissionAfterAbort
       /\ \A t \in TaskIds :
             (tasks'[t].aborted /\ tasks'[t].pc = "waiting") => Reachable(t)']_vars

C15_TransportFailureAborts ==
    [][/\ \A t \in TaskIds :
             SendCardDone(t, FALSE)
             => LET q == tasks'[t]
                IN  /\ q.pc = "done" /\ ~q.timeoutArmed
                    /\ q.round = 0 /\ ~q.stream.open
                    /\ tasks[t].round = 0 /\ ~tasks[t].rateLimiter.pushed
                    /\ q.finalPushes = 0 /\ q.terminalPushes = 0
                    /\ ~q.rateLimiter.pending /\ ~q.rateLimiter.pushed
                    /\ runningTasks'[tasks[t].chat] = 0
                    /\ \A u \in TaskIds \ {t} : tasks'[u] = tasks[u]
                    /\ UNCHANGED <<nextTask, entries, sessions>>
       /\ \A c \in Chats :
             (lastEvent = [chat |-> c, notice |-> "initialCardFailed"])
             => \A txt \in PromptTexts :
                   handleMessage(c, txt, FALSE)
                   => /\ runningTasks'[c] = nextTask
                      /\ tasks'[nextTask].pc = "sendCard"]_vars

\* The initial card of the first task has just failed: the routine is gone,
\* the slot is empty and a further prompt can be accepted.
C15_Witness ==
    \E c \in Chats :
        /\ lastEvent = [chat |-> c, notice |-> "initialCardFailed"]
        /\ runningTasks[c] = 0
        /\ tasks[1].chat = c /\ tasks[1].pc = "done"
        /\ nextTask = 2 /\ ~destroyed /\ stops = 0

Live(t) == tasks[t].pc \notin {"unused", "done"}

\* C16 (single timeout budget): a routine sets its timeout once, when the
\* task is registered; no later step of the routine, in any round or while
\* it waits for a reply, sets or clears it; the timeout fires only while
\* the routine has not finished and then raises the routine's own abort
\* signal and nothing else; the step in which the routine finishes (after
\* the final card, after the error card, or on a failed initial card)
\* clears it.
C16_SingleTimeoutBudget ==
    [][\A t \in TaskIds :
          LET r == tasks[t]
              q == tasks'[t]
          IN  /\ (r.pc = "unused" /\ q.pc # "unused")
                   => q.pc = "sendCard" /\ q.timeoutArmed /\ q.timeoutsSet = 1
              /\ (Live(t) /\ q.pc # "done")
                   => q.timeoutsSet = 1 /\ q.timeoutArmed
              /\ q.pc \in {"unused", "done"} => ~q.timeoutArmed
              /\ TimeoutFire(t)
                   => /\ Live(t) /\ ~r.aborted
                      /\ tasks' = [tasks EXCEPT ![t].aborted = TRUE]
                      /\ UNCHANGED <<runningTasks, entries, sessions>>]_vars

\* The timeout has fired while the routine waits for a reply, in a state
\* reached after its first round; the routine keeps waiting.
C16_Witness ==
    \E t \in TaskIds :
        /\ tasks[t].pc = "waiting" /\ tasks[t].aborted
        /\ tasks[t].timeoutArmed /\ tasks[t].timeoutsSet = 1
        /\ stops = 0 /\ ~destroyed
        /\ runningTasks[tasks[t].chat] = t

IsPrefix(a, b) == Len(a) <= Len(b) /\ SubSeq(b, 1, Len(a)) = a
RoundsOf(tools) == {tools[i].round : i \in 1..Len(tools)}

\* C17 (accumulated history survives continuation): as long as a routine
\* has not issued its final card, every step extends the response text and
\* the tool list of its aggregator; the card shown when a continuation
\* round starts carries the text and tools held at the suspension; and a
\* final card with status complete carries the whole text and tool list,
\* whose tool entries come from every round that started a tool.
C17_HistorySurvivesContinuation ==
    [][\A t \in TaskIds :
          LET r == tasks[t]
              q == tasks'[t]
          IN  /\ (Live(t) /\ r.pc # "finalPush" /\ q.pc \notin {"finalPush", "done"})
                   => /\ IsPrefix(r.processor.responseText, q.processor.responseText)
                      /\ IsPrefix(r.processor.toolCalls, q.processor.toolCalls)
                      /\ q.lastState.responseText = q.processor.responseText
                      /\ q.lastState.toolCalls = q.processor.toolCalls
              /\ (r.pc = "contPush" /\ q.pc = "stream")
                   => /\ q.lastState.status = "running"
                      /\ q.lastState.responseText = r.lastState.responseText
                      /\ q.lastState.toolCalls = r.lastState.toolCalls
              /\ (Live(t) /\ r.pc # "finalPush" /\ q.pc = "finalPush"
                     /\ q.finalState.status = "complete")
                   => /\ q.finalState.responseText = r.processor.responseText
                      /\ q.finalState.toolCalls = r.processor.toolCalls]_vars

\* The second round's stream ended with a successful result: the final card
\* is complete and lists a tool of the first round and a tool of the second.
C17_Witness ==
    \E t \in TaskIds :
        /\ tasks[t].pc = "finalPush" /\ tasks[t].round = 2
        /\ tasks[t].finalState.status = "complete"
        /\ RoundsOf(tasks[t].finalState.toolCalls) = {1, 2}

\* C18 (continuation is unbounded): in whatever round a stream ends without
\* throwing while the last snapshot is the turn-limit error and the chat's
\* slot holds an entry, the routine asks to continue again, keeping its
\* round number, aggregator, rate limiter and abort signal; an affirmative
\* reply to a suspended chat moves the waiting routine on with all of these
\* unchanged, whatever its round; and the next stream it opens is round
\* n + 1 with the same aggregator, rate limiter and abort signal.
C18_ContinuationUnbounded ==
    [][/\ \A t \in TaskIds :
             LET r == tasks[t]
                 q == tasks'[t]
             IN  /\ (r.pc = "stream" /\ q.pc # "stream" /\ TurnLimit(r.lastState)
                        /\ runningTasks[r.chat] # 0
                        /\ q.finalState.errorMessage # ThrownErr)
                      => /\ q.pc = "askPush"
                         /\ q.round = r.round
                         /\ q.processor = r.processor
                         /\ q.rateLimiter = flush(r).rateLimiter
                         /\ q.aborted = r.aborted
                 /\ (r.pc = "askPush" /\ q.pc # "askPush")
                      => q = [r EXCEPT !.pc = "waiting", !.askEntry = 0]
                 /\ (r.pc = "contPush" /\ q.pc # "contPush")
                      => /\ q.pc = "stream"
                         /\ q.round = r.round + 1
                         /\ q.processor = r.processor
                         /\ q.rateLimiter = r.rateLimiter
                         /\ q.aborted = r.aborted
       /\ \A c \in Chats :
             Suspended(c)
             => \A txt \in AffirmativeTexts :
                   handleMessage(c, txt, FALSE)
                   => LET w == Waiter(c)
                      IN  /\ tasks'[w] = [tasks[w] EXCEPT !.pc = "contPush"]
                          /\ tasks'[w].round = tasks[w].round]_vars

\* A routine consumes its third stream: two rounds ended in the turn limit
\* and were each continued; the aggregator still holds the text of the
\* first round and the rate limiter has issued a request.
C18_Witness ==
    \E t \in TaskIds :
        /\ tasks[t].pc = "stream" /\ tasks[t].round = 3
        /\ runningTasks[tasks[t].chat] = t
        /\ tasks[t].processor.responseText # <<>>
        /\ tasks[t].rateLimiter.pushed
        /\ ~tasks[t].aborted

\* C19 (shutdown): the destroy step raises the abort signal of every task
\* whose entry is in the slot map, whether its routine is running or waits
\* for a continuation reply, changes nothing else of any routine, and
\* leaves the slot map empty.
C19_ShutdownAbortsAndClears ==
    [][(~destroyed /\ destroyed')
        => /\ \A c \in Chats :
                 /\ runningTasks[c] # 0 => tasks'[runningTasks[c]].aborted
                 /\ runningTasks'[c] = 0
           /\ \A t \in TaskIds :
                 tasks'[t] = [tasks[t] EXCEPT !.aborted = tasks'[t].aborted]]_vars

\* After shutdown, with no stop command issued before, a routine that waits
\* for a continuation reply has its abort signal raised and the slot map is
\* empty.
C19_Witness ==
    /\ destroyed
    /\ \A c \in Chats : runningTasks[c] = 0
    /\ stops = 0
    /\ \E t \in TaskIds :
          /\ tasks[t].pc = "waiting"
          /\ tasks[t].aborted /\ tasks[t].timeoutArmed

\* What the bridge holds for one chat: its slot, the entry in the slot (with
\* the continuation record), its session, and the routines started for it.
NoEntry == [startTime |-> 0 - 1, waitingForContinue |-> NoWait]
ChatView(c) ==
    [slot    |-> runningTasks[c],
     entry   |-> IF runningTasks[c] # 0 THEN entries[runningTasks[c]] ELSE NoEntry,
     session |-> sessions[c],
     routines |-> [t \in TaskIds |->
                     IF tasks[t].pc # "unused" /\ tasks[t].chat = c
                     THEN tasks[t] ELSE UnusedTask]]
OwnedBy(c) == {t \in TaskIds : tasks[t].pc # "unused" /\ tasks[t].chat = c}
\* A step of chat c: a message of the chat is handled, or a routine, a rate
\* limiter timer or a timeout of one of its tasks takes a step.
StepOf(c) ==
    \/ \E msgText \in Texts, inFlight \in BOOLEAN : handleMessage(c, msgText, inFlight)
    \/ \E t \in OwnedBy(c) :
          \/ \E ok \in BOOLEAN : SendCardDone(t, ok)
          \/ \E ev \in Events, elapsed, inFlight \in BOOLEAN :
                StreamYield(t, ev, elapsed, inFlight)
          \/ \E inFlight \in BOOLEAN : StreamEnd(t, inFlight) \/ StreamThrow(t, inFlight)
          \/ AskPushDone(t) \/ ContPushDone(t) \/ FinalPushDone(t)
          \/ TimerFire(t) \/ TimeoutFire(t)

\* C20 (conversation isolation): a step of chat A (a message, command or
\* continuation reply of A, or a stream event, card completion, timer or
\* timeout of a task of A) leaves the slot, the entry with its continuation
\* record, the session and the routines of every other chat B unchanged; a
\* prompt in a chat B with an empty slot is accepted while another chat's
\* slot holds a running or suspended task; and every step other than the
\* shutdown changes what is held for at most one chat.
C20_ConversationIsolation ==
    [][/\ \A a \in Chats : \A b \in Chats \ {a} :
             StepOf(a) => ChatView(b)' = ChatView(b)
       /\ \A a \in Chats : \A b \in Chats \ {a} :
             (runningTasks[a] # 0 /\ runningTasks[b] = 0 /\ hasWorkingDirectory(b))
             => \A txt \in PromptTexts :
                   handleMessage(b, txt, FALSE)
                   => /\ runningTasks'[b] = nextTask
                      /\ tasks'[nextTask].pc = "sendCard"
                      /\ tasks'[nextTask].chat = b
                      /\ ChatView(a)' = ChatView(a)
       /\ (destroyed' = destroyed)
             => Cardinality({c \in Chats : ChatView(c)' # ChatView(c)}) <= 1]_vars

\* Both chats hold a task at once: the first chat is suspended on its
\* continuation prompt while the second chat's routine consumes its stream
\* under the session token its own stream reported.
C20_Witness ==
    /\ Suspended("c1") /\ runningTasks["c1"] = 1
    /\ runningTasks["c2"] = 2
    /\ tasks[2].pc = "stream" /\ tasks[2].chat = "c2"
    /\ sessions["c2"].sessionId # NoToken
    /\ sessions["c1"].sessionId # sessions["c2"].sessionId

\* The chat's slot holds no entry with a continuation record: a message is
\* not taken for a continuation reply.
NoReplyAwaited(c) ==
    runningTasks[c] = 0 \/ entries[runningTasks[c]].waitingForContinue = NoWait
\* What the store hands out for chat c at the next access.
Current(c) ==
    IF sessions[c].idle
    THEN [workingDirectory |-> env.defaultWorkingDirectory, sessionId |-> NoToken,
          systemPrompt |-> NoPrompt, idle |-> FALSE]
    ELSE sessions[c]

\* C21 (context change invalidates resumption): a /cd naming an existing
\* directory, handled as a command, leaves the chat's session with that
\* directory and no resumption token, whatever token it held; a /cd
\* without argument or naming no existing directory leaves the session
\* store unchanged; none of them touches the slot or a routine.
C21_ContextChangeClearsToken ==
    [][\A c \in Chats :
          NoReplyAwaited(c)
          => /\ handleMessage(c, CD \o <<" ", "a">>, FALSE)
                  => /\ sessions'[c].workingDirectory = <<"a">>
                     /\ sessions'[c].sessionId = NoToken
                     /\ \A d \in Chats \ {c} : sessions'[d] = sessions[d]
                     /\ UNCHANGED <<runningTasks, entries, tasks>>
             /\ \A txt \in {CD, CD \o <<" ", "b">>} :
                   handleMessage(c, txt, FALSE)
                   => UNCHANGED <<sessions, runningTasks, entries, tasks>>]_vars

\* The session held a token reported by a stream, and a /cd to the existing
\* directory has just cleared it while the task that reported it still runs.
C21_Witness ==
    /\ sessions["c1"].workingDirectory = <<"a">>
    /\ sessions["c1"].sessionId = NoToken
    /\ \E t \in TaskIds :
          /\ tasks[t].pc = "stream" /\ tasks[t].chat = "c1"
          /\ tasks[t].processor.sessionId # NoToken
          /\ tasks[t].stream.cwd = <<"a">>

\* C22 (reset preserves context): a /reset handled as a command leaves the
\* chat's session without resumption token and without system prompt
\* override, with the working directory the store held for the chat; it
\* changes no other session, no slot, no entry and no routine.
C22_ResetPreservesContext ==
    [][\A c \in Chats :
          (NoReplyAwaited(c) /\ handleMessage(c, RESET, FALSE))
          => /\ sessions'[c].sessionId = NoToken
             /\ sessions'[c].systemPrompt = NoPrompt
             /\ sessions'[c].workingDirectory = Current(c).workingDirectory
             /\ \A d \in Chats \ {c} : sessions'[d] = sessions[d]
             /\ UNCHANGED <<runningTasks, entries, tasks>>]_vars

\* A /reset has just been handled while a task runs that was started in
\* the directory set by /cd, with an override and a token in the session:
\* the directory is still there, the token and the override are gone, the
\* slot still holds the task.
C22_Witness ==
    /\ lastEvent = [chat |-> "c1", notice |-> "sessionReset"]
    /\ env.defaultWorkingDirectory = NoDir
    /\ sessions["c1"] = [workingDirectory |-> <<"a">>, sessionId |-> NoToken,
                         systemPrompt |-> NoPrompt, idle |-> FALSE]
    /\ \E t \in TaskIds :
          /\ runningTasks["c1"] = t /\ tasks[t].pc = "stream"
          /\ tasks[t].stream.systemPrompt = <<"p">>
          /\ tasks[t].processor.sessionId # NoToken

FreshWith(dir) ==
    [workingDirectory |-> dir, sessionId |-> NoToken, systemPrompt |-> NoPrompt,
     idle |-> FALSE]

C24_CoalescingCorrectness ==
    bench.kind = "limiter"
    => /\ bench.pushes <= 2
       /\ bench.rl.pending => bench.rl.pendingFn = bench.last
       /\ ~bench.rl.pending => bench.sink = bench.last
       /\ bench.flushed => ~bench.rl.pending /\ bench.sink = bench.last

\* A burst of four calls in one window: the first thunk ran at once, the
\* flush after the burst has run the fourth, and two thunks were run in all.
C24_Witness ==
    /\ bench.kind = "limiter"
    /\ bench.calls = 4 /\ bench.flushed
    /\ bench.pushes = 2 /\ bench.last = 3 /\ bench.sink = 3

\* The response element of the card the bench has rendered, if any.
ResponseOf(card) ==
    LET idx == {i \in 1..Len(card.elements) : card.elements[i].tag = "response"}
    IN  IF idx = {} THEN <<>> ELSE card.elements[CHOOSE i \in idx : TRUE].content

\* C25 (truncation bound): the rendered response of a text of length L is
\* the text itself when L is at most 50,000; when L is greater it is a
\* prefix of the text, the truncation marker and a suffix of the text, the
\* prefix starting at the first and the suffix ending at the last
\* character, both of the same length, and the whole is at most 50,000
\* plus the marker's length long.
C25_TruncationBound ==
    (bench.kind = "card" /\ bench.rendered)
    => LET text == bench.state.responseText
           out == ResponseOf(bench.card)
           L == length(text)
       IN  IF L <= 50000 THEN out = text
           ELSE /\ Len(out) = 3
                /\ out[1].src = "text" /\ out[2].src = "marker" /\ out[3].src = "text"
                /\ out[1].from = 1 /\ out[3].to = L
                /\ out[1].to <= L /\ out[3].from >= 1
                /\ runLength(out[1]) = runLength(out[3])
                /\ length(out) <= 50000 + MarkerLength

\* A text one character longer than the cap has been rendered: 24,950
\* characters from either end around the marker.
C25_Witness ==
    /\ bench.kind = "card" /\ bench.rendered
    /\ length(bench.state.responseText) = 50001
    /\ ResponseOf(bench.card) =
          <<[src |-> "text", from |-> 1, to |-> 24950], [src |-> "marker"],
            [src |-> "text", from |-> 25052, to |-> 50001]>>

\* The tool sections of a card, and the line that shows a tool call.
ToolSections(card) == {i \in 1..Len(card.elements) : card.elements[i].tag = "tools"}
ShownAs(tool) ==
    [icon |-> IF tool.status = "running" THEN "hourglass" ELSE "check",
     name |-> tool.name, detail |-> tool.detail]

\* C26 (tool-list windowing): rendering a snapshot with N tool calls leaves
\* the snapshot as it was; the card has no tool section when N = 0 and one
\* otherwise; the section shows the last min(N, 20) tool calls in their
\* order, and before them one line stating N - 20 hidden calls exactly
\* when N > 20.
C26_ToolListWindowing ==
    [][(bench.kind = "card" /\ ~bench.rendered /\ bench'.rendered)
        => LET tools == bench.state.toolCalls
               cnt == Len(tools)
               card == bench'.card
           IN  /\ bench'.state = bench.state
               /\ cnt = 0 => ToolSections(card) = {}
               /\ cnt > 0 =>
                    /\ ToolSections(card) = {1}
                    /\ LET lines == card.elements[1].content
                       IN  IF cnt <= 20
                           THEN /\ Len(lines) = cnt
                                /\ \A i \in 1..cnt : lines[i] = ShownAs(tools[i])
                           ELSE /\ Len(lines) = 21
                                /\ lines[1] = [hidden |-> cnt - 20]
                                /\ \A i \in 1..20 : lines[i + 1] = ShownAs(tools[cnt - 20 + i])]_vars

\* A snapshot with 22 tool calls has been rendered: the section begins
\* with the line for 2 hidden calls, followed by the third tool call, and
\* ends with the last one.
C26_Witness ==
    /\ bench.kind = "card" /\ bench.rendered
    /\ Len(bench.state.toolCalls) = 22
    /\ bench.card.elements[1].tag = "tools"
    /\ Len(bench.card.elements[1].content) = 21
    /\ bench.card.elements[1].content[1] = [hidden |-> 2]
    /\ bench.card.elements[1].content[2].name = 3
    /\ bench.card.elements[1].content[21].name = 22

\* C27 (cleanup releases only the task's own slot): the step in which a
\* routine ends, running its cleanup, leaves every slot that holds the
\* entry of another task as it is; in particular a routine stopped by /stop
\* never empties the slot of the task accepted after the stop.
C27_CleanupReleasesOwnSlot ==
    [][\A t \in TaskIds :
          (tasks[t].pc \notin {"unused", "done"} /\ tasks'[t].pc = "done")
          => \A c \in Chats :
                runningTasks[c] \notin {0, t} => runningTasks'[c] = runningTasks[c]]_vars

\* C28 (the continuation record matches the wait): the entry in a chat's
\* slot holds a continuation record exactly while the routine the record
\* names waits on the resolver; so once a yes or no reply has resolved the
\* wait, a message to the chat is no longer taken for a continuation reply.
C28_RecordMatchesWait ==
    \A c \in Chats :
        runningTasks[c] # 0
        => /\ Waiter(c) # NoWait => tasks[Waiter(c)].pc = "waiting"
           /\ tasks[runningTasks[c]].pc = "waiting" => Waiter(c) = runningTasks[c]

\* C29 (resumption token provenance): a session without token, whose
\* token a /cd or /reset has cleared after a running stream reported it
\* (the stream's aggregator still holds it), stays without token when
\* further messages of that stream are folded: the token a session holds
\* was never reported before the chat's latest /cd or /reset.
C29_TokenProvenance ==
    [][\A t \in TaskIds :
          LET r == tasks[t]
          IN  (r.pc = "stream" /\ tasks'[t].pc = "stream"
                 /\ r.processor.sessionId # NoToken
                 /\ sessions[r.chat].sessionId = NoToken)
              => sessions'[r.chat].sessionId # r.processor.sessionId]_vars

\* A message of task t's stream is folded into its aggregator.
Folded(t) ==
    tasks[t].pc = "stream" /\ tasks'[t].stream.n = tasks[t].stream.n + 1

\* Task t opens a backend stream (first round or continuation round).
Opened(t) ==
    tasks[t].pc # "stream" /\ tasks'[t].pc = "stream"

\* The step folds a message of a stream of chat c and leaves the token of
\* the stream's aggregator in the session.
Captured(c) ==
    \E t \in TaskIds :
        /\ Folded(t)
        /\ tasks[t].chat = c
        /\ sessions'[c].sessionId = tasks'[t].processor.sessionId

\* The step handles a /cd or /reset message of chat c.
ContextCommand(c) ==
    \E txt \in {RESET, CD, CD \o <<" ", "a">>, CD \o <<" ", "b">>} :
        handleMessage(c, txt, FALSE)

\* The step replaces the expired session of chat c by one without token.
Expired(c) ==
    sessions[c].idle /\ sessions'[c].sessionId = NoToken

\* The session object the routine of task t holds.
Held(t) ==
    IF tasks[t].detached THEN tasks[t].session ELSE sessions[tasks[t].chat]

\* The store has the aggregator's token as soon as a message is folded that
\* leaves the aggregator with a token other than the one of the session the
\* routine holds, and a stream is opened with the token of that session.
CaptureAndOpen ==
    \A t \in TaskIds :
        /\ (/\ Folded(t)
             /\ tasks'[t].processor.sessionId # NoToken
             /\ tasks'[t].processor.sessionId # Held(t).sessionId)
              => sessions'[tasks[t].chat].sessionId = tasks'[t].processor.sessionId
        /\ Opened(t)
              => tasks'[t].stream.sessionId = Held(t).sessionId

C31_OnePendingThunk ==
    [][\A t \in TaskIds :
          LET r == tasks[t]
              r2 == tasks'[t]
          IN  /\ \A ev \in Events, inFlight \in BOOLEAN :
                    (/\ StreamYield(t, ev, FALSE, inFlight)
                     /\ ~r.aborted /\ r.rateLimiter.pushed
                     /\ r2.lastState.status \notin {"complete", "error"})
                    => /\ r2.rateLimiter.pending
                       /\ r2.rateLimiter.pendingFn = r2.lastState
              /\ r2.pc # "stream" => ~r2.rateLimiter.pending
              /\ r.pc # "stream" => ~TimerFire(t)]_vars

\* Three messages of one stream were handed to the limiter: the first was
\* pushed at once, and the snapshot of the third is the pending thunk.
C31_Witness ==
    \E t \in TaskIds :
        /\ tasks[t].pc = "stream"
        /\ tasks[t].stream.n = 3
        /\ ~isTerminal(tasks[t].lastState)
        /\ tasks[t].rateLimiter.pending
        /\ tasks[t].rateLimiter.pendingFn = tasks[t].lastState

\* C32 (no task without a working context): a prompt in a chat whose
\* session has no working directory is answered with the 'working
\* directory not set' notice, registers no entry and opens no stream; and
\* every stream, of a first round or of a continuation round, is opened
\* with a working directory.
C32_NoTaskWithoutContext ==
    [][/\ \A c \in Chats :
             (/\ NoReplyAwaited(c)
              /\ Current(c).workingDirectory = NoDir
              /\ handleMessage(c, <<" ", "h", "i">>, FALSE))
             => /\ lastEvent' = Notice(c, "cwdNotSet")
                /\ UNCHANGED <<runningTasks, entries, tasks, nextTask>>
       /\ \A t \in TaskIds :
             Opened(t) => tasks'[t].stream.cwd # NoDir]_vars

\* No default directory is configured and the store has replaced the expired
\* session by one without working directory, while the task that was started
\* after a /cd runs its continuation round in that directory.
C32_Witness ==
    \E t \in TaskIds :
        /\ env.defaultWorkingDirectory = NoDir
        /\ tasks[t].pc = "stream" /\ tasks[t].round = 2
        /\ tasks[t].stream.cwd = <<"a">>
        /\ ~sessions[tasks[t].chat].idle
        /\ sessions[tasks[t].chat].workingDirectory = NoDir

\* C33 (command recognition ignores surrounding whitespace): a message whose
\* trimmed text starts with a command word has the effect of the trimmed
\* text: the handler of that command runs with the remaining words as its
\* argument, whether or not blanks precede or follow the text.
C33_CommandsIgnoreWhitespace ==
    [][\A c \in Chats, txt \in Texts :
          (/\ NoReplyAwaited(c)
           /\ startsWith(trim(txt), "/")
           /\ trim(txt) \in env.texts
           /\ handleMessage(c, txt, FALSE))
          => handleMessage(c, trim(txt), FALSE)]_vars

\* The text, without the blanks around it, begins with a slash.
BeginsWithSlash(txt) == trim(txt) # <<>> /\ Head(trim(txt)) = "/"

\* C34 (commands never reach the backend): no stream is opened with a
\* prompt that begins with a slash; a message whose trimmed text begins with
\* a slash is handled by the command handler, or, while the chat awaits a
\* continuation reply, by the reply classifier (which takes it for an
\* invalid reply), and registers no task.
C34_CommandsNeverReachBackend ==
    [][/\ \A t \in TaskIds :
             Opened(t) => ~BeginsWithSlash(tasks'[t].stream.prompt)
       /\ \A c \in Chats, txt \in Texts :
             (BeginsWithSlash(txt) /\ handleMessage(c, txt, FALSE))
             => /\ UNCHANGED <<entries, nextTask>>
                /\ runningTasks'[c] \in {runningTasks[c], 0}
                /\ \A t \in TaskIds : tasks'[t].pc = "unused" <=> tasks[t].pc = "unused"
                /\ IF NoReplyAwaited(c)
                   THEN handleCommand(c, txt)
                   ELSE /\ lastEvent' = Notice(c, "invalidResponse")
                        /\ UNCHANGED <<sessions, runningTasks, tasks>>]_vars

\* A command typed with a blank before it arrived while task 1 was reading
\* its stream: it was answered as an unknown command and no second task
\* was registered; the stream's prompt is the user's text.
C34_Witness ==
    /\ lastEvent = [chat |-> "c1", notice |-> "unknownCommand"]
    /\ nextTask = 2
    /\ tasks[1].pc = "stream"
    /\ tasks[1].stream.prompt = <<"h", "i">>

\* The ids of the hard-coded models.
FallbackIds ==
    {"claude-opus-4-6", "claude-sonnet-4-6", "claude-haiku-3-5",
     "claude-3-5-sonnet-20241022", "claude-3-5-haiku-20241022",
     "claude-3-opus-20240229"}

\* The last n entries of a list, and the entries before them.
LastOf(list, n) == SubSeq(list, Len(list) - n + 1, Len(list))
BeforeLast(list, n) == SubSeq(list, 1, Len(list) - n)

\* C35 (fallback models stay valid): whatever calls of initializeModels
\* have succeeded, failed or overlapped, the cached list is the answer of
\* one fetch (or nothing) followed by the six hard-coded models, once (it
\* does not grow with repeated calls), so every hard-coded id is valid; no
\* call lets an error out, and a call that fails leaves the list as it was.
C35_FallbackModelsStayValid ==
    [][bench.kind = "models"
       => /\ Len(bench'.cachedModels) >= 6
          /\ LastOf(bench'.cachedModels, 6) = FALLBACK_MODELS
          /\ \E sdkModels \in SdkAnswers :
                /\ Len(BeforeLast(bench'.cachedModels, 6)) = Len(sdkModels)
                /\ \A k \in 1..Len(sdkModels) :
                      BeforeLast(bench'.cachedModels, 6)[k].id = sdkModels[k].value
          /\ \A id \in FallbackIds : isValidModel(bench'.cachedModels, id)
          /\ \A i \in 1..MaxInit :
                /\ ~bench'.calls[i].threw
                /\ (/\ bench.calls[i].pc # "returned"
                    /\ bench'.calls[i].pc = "returned"
                    /\ bench'.calls[i].failed)
                   => bench'.cachedModels = bench.cachedModels]_vars

\* Three calls have returned: the second fetched two aliases, the first and
\* the third failed; the list is the two aliases and the six hard-coded
\* models.
C35_Witness ==
    /\ bench.kind = "models"
    /\ \A i \in 1..MaxInit : bench.calls[i].pc = "returned"
    /\ bench.calls[1].failed /\ ~bench.calls[2].failed /\ bench.calls[3].failed
    /\ Len(bench.cachedModels) = 8
    /\ bench.cachedModels[1].id = "sonnet"

====
